---------------------------- MODULE Spec2Model ----------------------------
(***************************************************************************)
(* A model of the numeric core of the Personal FI Planner (src/app.py):    *)
(* compound_schedule and the two age solvers compute_fi_age_horizon and    *)
(* compute_barista_fi_age_bridge.                                          *)
(*                                                                         *)
(* Every function of the core is a pure function.  One call is modelled as *)
(* one stack frame: fn names the function, args holds its arguments, loc   *)
(* its local variables, pc its position and ret what it returned.  A loop  *)
(* runs one iteration per step.                                            *)
(*                                                                         *)
(* Python floats are modelled as exact rationals [n, d] (d > 0, lowest     *)
(* terms), so an equality of the model is an equality of the real numbers  *)
(* the floats approximate.  Square roots are carried as the rational under *)
(* the root.                                                               *)
(***************************************************************************)
EXTENDS Integers, Sequences, FiniteSets, TLC

VARIABLES fn, pc, args, loc, ret

vars == <<fn, pc, args, loc, ret>>

(***************************************************************************)
(* Bounds of the model.                                                    *)
(***************************************************************************)
\* The longest simulation, in years, of compound_schedule.
MaxYears == 2
\* The largest magnitude (numerator times scale) an input may lead to.
MaxAmount == 500000000

\* Python's None, and a value that is not None: an optional value is a
\* sequence of at most one element.
None == <<>>
Some(v) == <<v>>
Val(o) == o[1]

(***************************************************************************)
(* Exact rational arithmetic, standing for Python's float arithmetic.      *)
(***************************************************************************)
Abs(x) == IF x < 0 THEN -x ELSE x

RECURSIVE GCD(_, _)
GCD(a, b) == IF b = 0 THEN a ELSE GCD(b, a % b)

Rat(n, d) ==
    LET s == IF d < 0 THEN -1 ELSE 1
        g == GCD(Abs(n), Abs(d))
    IN  [n |-> (s * n) \div g, d |-> (s * d) \div g]

RInt(k) == [n |-> k, d |-> 1]

RNeg(x) == [n |-> -x.n, d |-> x.d]

RAdd(x, y) ==
    LET g == GCD(x.d, y.d)
    IN  Rat(x.n * (y.d \div g) + y.n * (x.d \div g), (x.d \div g) * y.d)

RSub(x, y) == RAdd(x, RNeg(y))

RMul(x, y) ==
    LET g1 == GCD(Abs(x.n), y.d)
        g2 == GCD(Abs(y.n), x.d)
    IN  IF x.n = 0 \/ y.n = 0
        THEN RInt(0)
        ELSE Rat((x.n \div g1) * (y.n \div g2), (x.d \div g2) * (y.d \div g1))

RInv(x) == Rat(x.d, x.n)

RDiv(x, y) == RMul(x, RInv(y))

RLt(x, y) ==
    LET g == GCD(x.d, y.d)
    IN  x.n * (y.d \div g) < y.n * (x.d \div g)

RLe(x, y) == ~RLt(y, x)

RMax(x, y) == IF RLt(x, y) THEN y ELSE x

RMin(x, y) == IF RLt(y, x) THEN y ELSE x

RECURSIVE RPow(_, _)
RPow(x, k) == IF k = 0 THEN RInt(1) ELSE RMul(x, RPow(x, k - 1))

\* The least integer >= x, for x >= 0.
RCeil(x) == (x.n + x.d - 1) \div x.d

RECURSIVE SumSeq(_, _)
SumSeq(s, k) == IF k = 0 THEN RInt(0) ELSE RAdd(SumSeq(s, k - 1), s[k])

(***************************************************************************)
(* compound_schedule (src/app.py:10-85)                                    *)
(***************************************************************************)
\* m = 12 monthly sub-steps a year.
MonthsPerYear == 12

\* Lines 47-54: k monthly sub-steps.  Each adds the month's contribution and
\* then the month's growth, balance * (r / m).  growth_sum is a history value:
\* the sum of the growth_month increments, which the code never adds up.
RECURSIVE MonthLoop(_, _, _, _)
MonthLoop(st, monthly_contrib, r, k) ==
    IF k = 0
    THEN st
    ELSE LET b1 == RAdd(st.balance, monthly_contrib)
             growth_month == RMul(b1, RDiv(r, RInt(MonthsPerYear)))
             nxt == [balance      |-> RAdd(b1, growth_month),
                     cum_contrib  |-> RAdd(st.cum_contrib, monthly_contrib),
                     contrib_year |-> RAdd(st.contrib_year, monthly_contrib),
                     growth_sum   |-> RAdd(st.growth_sum, growth_month)]
         IN  \* (nxt = nxt has TLC work a month out before it starts the next)
             IF nxt = nxt THEN MonthLoop(nxt, monthly_contrib, r, k - 1) ELSE nxt

\* Lines 38-41: the rate of year year_idx (0-based).
YearRate(a, year_idx) ==
    IF a.annual_rate_by_year # None
    THEN Val(a.annual_rate_by_year)[year_idx + 1]
    ELSE IF a.annual_rate # None THEN Val(a.annual_rate) ELSE RInt(0)

\* Line 65: the balance after the year's expense.
BalanceAfterExpenseNoSubtract(balance_before_expense, annual_expense) ==
    balance_before_expense

\* A slip of line 65: the expense is taken off twice.
BalanceAfterExpenseTwice(balance_before_expense, annual_expense) ==
    RSub(RSub(balance_before_expense, annual_expense), annual_expense)

BalanceAfterExpense(balance_before_expense, annual_expense) ==
    RSub(balance_before_expense, annual_expense)

\* A slip of lines 47-54: the month's growth is taken before the month's
\* contribution is added.
RECURSIVE MonthLoopGrowthFirst(_, _, _, _)
MonthLoopGrowthFirst(st, monthly_contrib, r, k) ==
    IF k = 0
    THEN st
    ELSE LET growth_month == RMul(st.balance, RDiv(r, RInt(MonthsPerYear)))
             nxt == [balance      |-> RAdd(RAdd(st.balance, growth_month),
                                           monthly_contrib),
                     cum_contrib  |-> RAdd(st.cum_contrib, monthly_contrib),
                     contrib_year |-> RAdd(st.contrib_year, monthly_contrib),
                     growth_sum   |-> RAdd(st.growth_sum, growth_month)]
         IN  IF nxt = nxt
             THEN MonthLoopGrowthFirst(nxt, monthly_contrib, r, k - 1)
             ELSE nxt

YearMonthsGrowthFirst(st, monthly_contrib, r) ==
    MonthLoopGrowthFirst(st, monthly_contrib, r, MonthsPerYear)

\* An annual mode in place of lines 47-54: the year's rate is applied once to
\* the balance the year starts from, then the year's contribution is added.
YearMonthsAnnual(st, monthly_contrib, r) ==
    LET contrib == RMul(RInt(MonthsPerYear), monthly_contrib)
        growth == RMul(st.balance, r)
    IN  [balance      |-> RAdd(RAdd(st.balance, growth), contrib),
         cum_contrib  |-> RAdd(st.cum_contrib, contrib),
         contrib_year |-> RAdd(st.contrib_year, contrib),
         growth_sum   |-> RAdd(st.growth_sum, growth)]

\* Lines 47-54: the m sub-steps of one year.
YearMonths(st, monthly_contrib, r) ==
    MonthLoop(st, monthly_contrib, r, MonthsPerYear)

\* Line 44: the balance a year starts from.  (A slip: every year starts
\* again from start_balance.)
YearStartBalanceReset(l, a) == a.start_balance

YearStartBalance(l, a) == l.balance

\* Lines 37-83: one iteration of the year loop; the new locals.
YearBody(l, a) ==
    LET year_idx == l.year_idx
        r == YearRate(a, year_idx)
        balance_start_year == YearStartBalance(l, a)
        ml == YearMonths([balance      |-> balance_start_year,
                          cum_contrib  |-> l.cum_contrib,
                          contrib_year |-> RInt(0),
                          growth_sum   |-> RInt(0)],
                         a.monthly_contrib_by_year[year_idx + 1], r)
        balance_before_expense == ml.balance
        annual_expense == a.annual_expense_by_year[year_idx + 1]
        market_growth_year ==
            RSub(balance_before_expense, RAdd(balance_start_year, ml.contrib_year))
        cum_invest_growth == RAdd(l.cum_invest_growth, market_growth_year)
        expense_drag_year == RNeg(annual_expense)
        cum_expense_drag == RAdd(l.cum_expense_drag, expense_drag_year)
        balance == BalanceAfterExpense(balance_before_expense, annual_expense)
        cum_expense_abs == RAdd(l.cum_expense_abs, annual_expense)
        net_growth_cum == RAdd(cum_invest_growth, cum_expense_drag)
        row == [Year              |-> year_idx + 1,
                Balance           |-> balance,
                CumContributions  |-> ml.cum_contrib,
                ContribYear       |-> ml.contrib_year,
                InvestGrowth      |-> cum_invest_growth,
                InvestGrowthYear  |-> market_growth_year,
                ExpenseDrag       |-> cum_expense_drag,
                NetGrowth         |-> net_growth_cum,
                AnnualExpense     |-> annual_expense,
                CumulativeExpense |-> cum_expense_abs]
        seen == [balance_start_year     |-> balance_start_year,
                 growth_sum             |-> ml.growth_sum,
                 balance_before_expense |-> balance_before_expense]
    IN  [year_idx          |-> year_idx + 1,
         balance           |-> balance,
         cum_contrib       |-> ml.cum_contrib,
         cum_invest_growth |-> cum_invest_growth,
         cum_expense_drag  |-> cum_expense_drag,
         cum_expense_abs   |-> cum_expense_abs,
         rows              |-> Append(l.rows, row),
         hist              |-> Append(l.hist, seen)]

\* Lines 29-35: the locals before the first year.  hist is a history value:
\* per year, the locals that no column of the row keeps.
ScheduleLocals(a) ==
    [year_idx          |-> 0,
     balance           |-> a.start_balance,
     cum_contrib       |-> RInt(0),
     cum_invest_growth |-> RInt(0),
     cum_expense_drag  |-> RInt(0),
     cum_expense_abs   |-> RInt(0),
     rows              |-> <<>>,
     hist              |-> <<>>]

\* Lines 48 and 57: the year's entries of the two sequences exist.
YearInRange(l, a) ==
    /\ l.year_idx < Len(a.monthly_contrib_by_year)
    /\ l.year_idx < Len(a.annual_expense_by_year)

\* A slip of lines 26-27: the length of the rates is not looked at.
RatesLengthWrongNever(a) == FALSE

\* Line 26.
RatesLengthWrong(a) ==
    a.annual_rate_by_year # None /\ Len(Val(a.annual_rate_by_year)) # a.years

\* Lines 26-35: the check of the rates' length, which raises ValueError, and
\* the locals before the first year.
ScheduleEntry ==
    /\ fn = "compound_schedule"
    /\ pc = "entry"
    /\ pc' = IF RatesLengthWrong(args) THEN "ValueError" ELSE "loop"
    /\ loc' = ScheduleLocals(args)
    /\ UNCHANGED <<fn, args, ret>>

\* Lines 37-83: the year loop runs one more year.
ScheduleYear ==
    /\ fn = "compound_schedule"
    /\ pc = "loop"
    /\ loc.year_idx < args.years
    /\ YearInRange(loc, args)
    /\ loc' = YearBody(loc, args)
    /\ UNCHANGED <<fn, pc, args, ret>>

\* Lines 48 and 57: a sequence with no entry for the year raises IndexError.
ScheduleIndexError ==
    /\ fn = "compound_schedule"
    /\ pc = "loop"
    /\ loc.year_idx < args.years
    /\ ~YearInRange(loc, args)
    /\ pc' = "IndexError"
    /\ UNCHANGED <<fn, args, loc, ret>>

\* Line 85: the loop is over and the rows are returned.
ScheduleReturn ==
    /\ fn = "compound_schedule"
    /\ pc = "loop"
    /\ loc.year_idx = args.years
    /\ pc' = "done"
    /\ ret' = loc.rows
    /\ UNCHANGED <<fn, args, loc>>

(***************************************************************************)
(* The calls of compound_schedule the model makes.                         *)
(***************************************************************************)
StartBalances == {RInt(0), RInt(1), RInt(3)}
MonthlyContribs == {RInt(0), RInt(1)}
AnnualExpenses == {RInt(0), RInt(2)}
\* Annual rates 0, 600% and 1200%: r / 12 is 0, 1/2 and 1.
AnnualRates == {RInt(0), RInt(6), RInt(12)}

SeqsOf(S, n) == [1..n -> S]

\* What a year at rate r can multiply a balance by, rounded up, and what it
\* multiplies the balance's denominator by.
YearGrowthCap(r) ==
    RCeil(RPow(RAdd(RInt(1), RDiv(r, RInt(MonthsPerYear))), MonthsPerYear))
YearScale(r) ==
    RPow(RDiv(r, RInt(MonthsPerYear)), MonthsPerYear).d

CapMul(x, y) == IF x > MaxAmount \div y THEN MaxAmount + 1 ELSE x * y

RECURSIVE CapProd(_, _)
CapProd(a, k) ==
    IF k = 0
    THEN RCeil(a.start_balance) + 1
         + MonthsPerYear * RCeil(SumSeq(a.monthly_contrib_by_year, a.years))
    ELSE LET r == YearRate(a, k - 1)
         IN  CapMul(CapMul(CapProd(a, k - 1), YearGrowthCap(r)), YearScale(r))

\* The call's numbers stay within the model's integers.
Representable(a) == CapProd(a, a.years) <= MaxAmount

ScheduleArgs ==
    { a \in UNION { [start_balance          : StartBalances,
                     years                  : {n},
                     monthly_contrib_by_year : SeqsOf(MonthlyContribs, n),
                     annual_expense_by_year  : SeqsOf(AnnualExpenses, n),
                     annual_rate             :
                         {Some(r) : r \in AnnualRates} \cup {None},
                     annual_rate_by_year     :
                         {Some(s) : s \in SeqsOf(AnnualRates, n)} \cup {None}]
                    : n \in 0..MaxYears } :
        /\ a.annual_rate_by_year # None => a.annual_rate = None
        /\ Representable(a) }

InitSchedule ==
    /\ fn = "compound_schedule"
    /\ pc = "loop"
    /\ args \in ScheduleArgs
    /\ loc = ScheduleLocals(args)
    /\ ret = None

NextSchedule == ScheduleYear \/ ScheduleReturn

SpecSchedule == InitSchedule /\ [][NextSchedule]_vars

(***************************************************************************)
(* Calls of compound_schedule whose sequences are shorter or longer than   *)
(* years.                                                                  *)
(***************************************************************************)
\* The greatest number of years of these calls.
MaxLengthYears == 2

\* The sequences over S of a length within one of n.
SeqsAround(S, n) ==
    UNION { SeqsOf(S, k) : k \in (IF n = 0 THEN 0 ELSE n - 1)..(n + 1) }

LengthRates == {RInt(0), RInt(12)}

\* The call with the greatest contribution in the years its contributions
\* leave out: no year of the call itself has more.
FilledToYears(a) ==
    [a EXCEPT !.monthly_contrib_by_year =
                  [k \in 1..a.years |-> IF k <= Len(@) THEN @[k] ELSE RInt(1)]]

LengthArgs ==
    { a \in UNION { [start_balance          : {RInt(1)},
                     years                  : {n},
                     monthly_contrib_by_year : SeqsAround(MonthlyContribs, n),
                     annual_expense_by_year  : SeqsAround(AnnualExpenses, n),
                     annual_rate             :
                         {Some(r) : r \in LengthRates} \cup {None},
                     annual_rate_by_year     :
                         {Some(s) : s \in SeqsAround(LengthRates, n)} \cup {None}]
                    : n \in 0..MaxLengthYears } :
        /\ a.annual_rate_by_year # None => a.annual_rate = None
        /\ \/ /\ a.annual_rate_by_year # None
              /\ Len(Val(a.annual_rate_by_year)) # a.years
           \/ Representable(FilledToYears(a)) }

InitLengths ==
    /\ fn = "compound_schedule"
    /\ pc = "entry"
    /\ args \in LengthArgs
    /\ loc = None
    /\ ret = None

NextLengths ==
    ScheduleEntry \/ ScheduleYear \/ ScheduleIndexError \/ ScheduleReturn

SpecLengths == InitLengths /\ [][NextLengths]_vars

(***************************************************************************)
(* Numbers s * sqrt(q), q a rational: what (30 / horizon) ** 0.5 makes of  *)
(* the rationals.  [sg, sq] stands for sg * sqrt(sq), sg in {-1, 0, 1}.    *)
(***************************************************************************)
Sign(k) == IF k < 0 THEN -1 ELSE IF k = 0 THEN 0 ELSE 1

\* The rational x as such a number.
Surd(x) == [sg |-> Sign(x.n), sq |-> RMul(x, x)]

\* x ** 0.5, for a rational x >= 0.
SSqrt(x) == [sg |-> Sign(x.n), sq |-> x]

\* x * y and x / y, for a rational x.
SMulRat(x, y) == [sg |-> Sign(x.n) * y.sg, sq |-> RMul(RMul(x, x), y.sq)]
SDivRat(x, y) == [sg |-> Sign(x.n) * y.sg, sq |-> RDiv(RMul(x, x), y.sq)]

SLt(x, y) ==
    IF x.sg # y.sg
    THEN x.sg < y.sg
    ELSE IF x.sg = 1
         THEN RLt(x.sq, y.sq)
         ELSE IF x.sg = -1 THEN RLt(y.sq, x.sq) ELSE FALSE

SLe(x, y) == ~SLt(y, x)

SMax(x, y) == IF SLt(x, y) THEN y ELSE x

SMin(x, y) == IF SLt(y, x) THEN y ELSE x

IMax(x, y) == IF x < y THEN y ELSE x

IMin(x, y) == IF y < x THEN y ELSE x

(***************************************************************************)
(* adjusted_swr_for_horizon (src/app.py:91-94)                             *)
(***************************************************************************)
\* The band the rate is clamped to: 0.025 and 0.05.
SwrFloor == Rat(25, 1000)
SwrCeiling == Rat(5, 100)


\* A slip of line 94: the rate is returned as computed, outside the band too.
UnclampedSwr(horizon_years, base_30yr_swr) ==
    SMulRat(base_30yr_swr, SSqrt(Rat(30, IMax(horizon_years, 1))))

\* A slip of line 93: the ratio is taken upside down.
InvertedSwr(horizon_years, base_30yr_swr) ==
    SMax(Surd(SwrFloor),
         SMin(Surd(SwrCeiling),
              SMulRat(base_30yr_swr, SSqrt(Rat(IMax(horizon_years, 1), 30)))))

\* Lines 92-94.
adjusted_swr_for_horizon(horizon_years, base_30yr_swr) ==
    LET h == IMax(horizon_years, 1)
        raw == SMulRat(base_30yr_swr, SSqrt(Rat(30, h)))
    IN  SMax(Surd(SwrFloor), SMin(Surd(SwrCeiling), raw))

\* A call of adjusted_swr_for_horizon.
SwrCall ==
    /\ fn = "adjusted_swr_for_horizon"
    /\ pc = "entry"
    /\ pc' = "done"
    /\ ret' = Some(adjusted_swr_for_horizon(args.horizon_years, args.base_30yr_swr))
    /\ UNCHANGED <<fn, args, loc>>

\* The longest horizon the function is called with.
MaxHorizon == 40

\* Base rates from -1% to 10%, 0 and 0.5% among them.
SwrBaseRates ==
    {Rat(-1, 100), RInt(0), Rat(1, 200), Rat(1, 100), Rat(25, 1000), Rat(3, 100),
     Rat(4, 100), Rat(5, 100), Rat(7, 100), Rat(10, 100)}

SwrArgs == [horizon_years : (-2)..MaxHorizon, base_30yr_swr : SwrBaseRates]

InitSwr ==
    /\ fn = "adjusted_swr_for_horizon"
    /\ pc = "entry"
    /\ args \in SwrArgs
    /\ loc = None
    /\ ret = None

NextSwr == SwrCall

SpecSwr == InitSwr /\ [][NextSwr]_vars

(***************************************************************************)
(* compute_fi_age_horizon (src/app.py:97-139)                              *)
(***************************************************************************)
\* Lines 122-129: the horizon, the rate and the required portfolio of a row.
RowHorizon(a, row) == IMax(a.horizon_end_age - row.Age, 1)

RowSwr(a, row) == adjusted_swr_for_horizon(RowHorizon(a, row), a.base_30yr_swr)

\* A slip of line 129: the spend is never inflated to the row's year.
RowRequiredToday(a, row) == SDivRat(a.fi_annual_spend_today, RowSwr(a, row))

RowRequired(a, row) ==
    IF a.show_real /\ RLt(RInt(0), a.infl_rate)
    THEN SDivRat(a.fi_annual_spend_today, RowSwr(a, row))
    ELSE SDivRat(RMul(a.fi_annual_spend_today,
                      RPow(RAdd(RInt(1), a.infl_rate), row.Year)),
                 RowSwr(a, row))

\* Line 119: the rows the scan skips.
RowSkippedNever(a, row) == FALSE

RowSkipped(a, row) == row.Age >= a.horizon_end_age

\* Line 131: the row's balance reaches its required portfolio.
RowMeetsStrictly(a, row) == SLt(RowRequired(a, row), Surd(row.Balance))

RowMeets(a, row) == SLe(RowRequired(a, row), Surd(row.Balance))

\* Lines 108-112: nothing found yet.
FINotReached ==
    [fi_age |-> None, fi_portfolio |-> None, fi_required |-> None,
     eff_swr |-> None, horizon_years |-> None]

\* Lines 132-136: what a row that meets its target sets.
FIFound(a, row) ==
    [fi_age        |-> Some(row.Age),
     fi_portfolio  |-> Some(row.Balance),
     fi_required   |-> Some(RowRequired(a, row)),
     eff_swr       |-> Some(RowSwr(a, row)),
     horizon_years |-> Some(RowHorizon(a, row))]

\* A slip of line 105: the base rate is not looked at.
FIDegenerateSpendOnly(a) == RLe(a.fi_annual_spend_today, RInt(0))

\* Lines 105-106: no spend or no base rate: nothing is computed.
FIDegenerate(a) ==
    RLe(a.fi_annual_spend_today, RInt(0)) \/ RLe(a.base_30yr_swr, RInt(0))

\* Lines 105-112: the guard, and the locals before the scan.
FIEntry ==
    /\ fn = "compute_fi_age_horizon"
    /\ pc = "entry"
    /\ IF FIDegenerate(args)
       THEN /\ pc' = "done"
            /\ ret' = FINotReached
            /\ UNCHANGED loc
       ELSE /\ pc' = "loop"
            /\ loc' = [i |-> 1, found |-> FINotReached]
            /\ UNCHANGED ret
    /\ UNCHANGED <<fn, args>>

\* Lines 114-137: the scan looks at the next row of df.
FIRow ==
    /\ fn = "compute_fi_age_horizon"
    /\ pc = "loop"
    /\ loc.i <= Len(args.df)
    /\ LET row == args.df[loc.i]
       IN  IF RowSkipped(args, row)
           THEN /\ loc' = [loc EXCEPT !.i = loc.i + 1]
                /\ UNCHANGED pc
           ELSE IF RowMeets(args, row)
                THEN /\ loc' = [loc EXCEPT !.found = FIFound(args, row)]
                     /\ pc' = "return"
                ELSE /\ loc' = [loc EXCEPT !.i = loc.i + 1]
                     /\ UNCHANGED pc
    /\ UNCHANGED <<fn, args, ret>>

\* Line 139: the scan broke off or ran out of rows.
FIReturn ==
    /\ fn = "compute_fi_age_horizon"
    /\ \/ pc = "return"
       \/ pc = "loop" /\ loc.i > Len(args.df)
    /\ pc' = "done"
    /\ ret' = loc.found
    /\ UNCHANGED <<fn, args, loc>>

(***************************************************************************)
(* The trajectories the solvers are given.  main (lines 430, 866, 1036)    *)
(* simulates the years from current_age to max_sim_age = 90 and sets       *)
(* Age = current_age + Year.                                               *)
(***************************************************************************)
MaxSimAge == 90

\* The trajectory of n years with the balances bs.
Trajectory(n, bs) ==
    [k \in 1..n |-> [Year |-> k, Age |-> (MaxSimAge - n) + k, Balance |-> bs[k]]]

\* The longest trajectory given to compute_fi_age_horizon.
MaxRows == 4

FIBalances == {RInt(0), RInt(20), RInt(26), RInt(100)}
FISpends == {RInt(0), RInt(1)}
\* Base rates 0, 1% and 4%.
FIBaseRates == {RInt(0), Rat(1, 100), Rat(4, 100)}
\* Inflation 0 and 100%.
InflRates == {RInt(0), RInt(1)}

FIArgs ==
    UNION { [df                    : {Trajectory(n, bs) : bs \in SeqsOf(FIBalances, n)},
             fi_annual_spend_today : FISpends,
             infl_rate             : InflRates,
             show_real             : BOOLEAN,
             base_30yr_swr         : FIBaseRates,
             horizon_end_age       : {MaxSimAge}]
            : n \in 1..MaxRows }

InitFI ==
    /\ fn = "compute_fi_age_horizon"
    /\ pc = "entry"
    /\ args \in FIArgs
    /\ loc = [i |-> 0, found |-> FINotReached]
    /\ ret = None

NextFI == FIEntry \/ FIRow \/ FIReturn

SpecFI == InitFI /\ [][NextFI]_vars

(***************************************************************************)
(* compute_barista_fi_age_bridge (src/app.py:142-263)                      *)
(***************************************************************************)
\* Line 165: the tax rate on bridge withdrawals, kept within [0, 0.7].
BridgeTax(a) == RMax(RInt(0), RMin(a.tax_rate_bridge, Rat(7, 10)))

\* Lines 173-179: a row's balance in today's dollars.
RowBalanceReal(a, row) ==
    IF a.show_real /\ RLt(RInt(0), a.infl_rate)
    THEN row.Balance
    ELSE IF RLt(RInt(0), a.infl_rate)
         THEN RDiv(row.Balance, RPow(RAdd(RInt(1), a.infl_rate), row.Year))
         ELSE row.Balance

\* Lines 167-181: balance_real_by_age; a later row of an age overwrites an
\* earlier one.
RowAges(df) == {df[k].Age : k \in 1..Len(df)}

LastRowOfAge(df, age) ==
    CHOOSE k \in 1..Len(df) :
        /\ df[k].Age = age
        /\ \A j \in 1..Len(df) : df[j].Age = age => j <= k

BalanceRealByAge(a) ==
    [age \in RowAges(a.df) |-> RowBalanceReal(a, a.df[LastRowOfAge(a.df, age)])]

\* Line 183.
FiTargetReal(a) == RDiv(a.fi_annual_spend_today, a.base_30yr_swr)

\* Line 185.
StartAgeCandidate(a) == a.current_age + 1

\* Line 189.
EffectiveBaristaEndAge(a) == IMin(a.barista_end_age, a.full_fi_age - 1)

\* Lines 216-219: the real return of a nominal one.
RealReturn(a, r_nominal) ==
    IF RLt(RInt(0), a.infl_rate)
    THEN RSub(RDiv(RAdd(RInt(1), r_nominal), RAdd(RInt(1), a.infl_rate)), RInt(1))
    ELSE r_nominal

\* Lines 221-224: what the portfolio pays of the spend at an age.  (A slip:
\* the part-time income is forgotten.)
SpendFromPortfolioFull(a, age) == a.fi_annual_spend_today

SpendFromPortfolio(a, age) ==
    IF age <= EffectiveBaristaEndAge(a)
    THEN RMax(RSub(a.fi_annual_spend_today, a.barista_income_today), RInt(0))
    ELSE a.fi_annual_spend_today

\* A slip of line 226: the extra health cost is left out.
TotalRealSpendNoHealth(a, age) == SpendFromPortfolio(a, age)

\* Line 226.
TotalRealSpend(a, age) ==
    RAdd(SpendFromPortfolio(a, age), RMax(a.extra_health_today, RInt(0)))

\* A slip of lines 229-230: the withdrawal is not grossed up for the tax.
GrossWithdrawalNet(a, age) == TotalRealSpend(a, age)

\* What lines 229-232 would be with a penalty rate of 10% before age 60.
GrossWithdrawalEarly(a, age) ==
    IF age < 60
    THEN RDiv(TotalRealSpend(a, age), Rat(9, 10))
    ELSE IF RLt(RInt(0), BridgeTax(a))
         THEN RDiv(TotalRealSpend(a, age), RSub(RInt(1), BridgeTax(a)))
         ELSE TotalRealSpend(a, age)

\* Lines 229-232: the withdrawal that leaves total_real_spend after tax.
GrossWithdrawal(a, age) ==
    IF RLt(RInt(0), BridgeTax(a))
    THEN RDiv(TotalRealSpend(a, age), RSub(RInt(1), BridgeTax(a)))
    ELSE TotalRealSpend(a, age)

\* What lines 234-240 would be with the growth applied before the withdrawal.
BridgeYearGrowthFirst(a, st, age) ==
    LET idx == age - a.current_age
    IN  IF idx < 0 \/ idx >= Len(a.annual_rates_by_year_full)
        THEN [st EXCEPT !.ok = FALSE, !.brk = TRUE]
        ELSE LET real_return == RealReturn(a, a.annual_rates_by_year_full[idx + 1])
                 pv == RAdd(st.pv_bridge_need,
                            RDiv(TotalRealSpend(a, age), st.disc_factor))
                 bal == RSub(RMul(st.bal, RAdd(RInt(1), real_return)),
                             GrossWithdrawal(a, age))
                 seen == [age |-> age, need |-> TotalRealSpend(a, age),
                          gross |-> GrossWithdrawal(a, age),
                          bal_before |-> st.bal, bal |-> bal]
             IN  IF RLt(bal, RInt(0))
                 THEN [st EXCEPT !.pv_bridge_need = pv, !.bal = bal,
                                 !.ok = FALSE, !.brk = TRUE,
                                 !.trace = Append(st.trace, seen)]
                 ELSE [st EXCEPT !.pv_bridge_need = pv,
                                 !.bal = bal,
                                 !.disc_factor =
                                     RMul(st.disc_factor, RAdd(RInt(1), real_return)),
                                 !.trace = Append(st.trace, seen)]

\* Lines 210-240: one year of a candidate's bridge.  trace is a history
\* value: per simulated year, the age, total_real_spend, the withdrawal and
\* bal before and after it.
BridgeYear(a, st, age) ==
    LET idx == age - a.current_age
    IN  IF idx < 0 \/ idx >= Len(a.annual_rates_by_year_full)
        THEN [st EXCEPT !.ok = FALSE, !.brk = TRUE]
        ELSE LET real_return == RealReturn(a, a.annual_rates_by_year_full[idx + 1])
                 pv == RAdd(st.pv_bridge_need,
                            RDiv(TotalRealSpend(a, age), st.disc_factor))
                 bal == RSub(st.bal, GrossWithdrawal(a, age))
                 seen == [age |-> age, need |-> TotalRealSpend(a, age),
                          gross |-> GrossWithdrawal(a, age),
                          bal_before |-> st.bal, bal |-> bal]
             IN  IF RLt(bal, RInt(0))
                 THEN [st EXCEPT !.pv_bridge_need = pv, !.bal = bal,
                                 !.ok = FALSE, !.brk = TRUE,
                                 !.trace = Append(st.trace, seen)]
                 ELSE [st EXCEPT !.pv_bridge_need = pv,
                                 !.bal = RMul(bal, RAdd(RInt(1), real_return)),
                                 !.disc_factor =
                                     RMul(st.disc_factor, RAdd(RInt(1), real_return)),
                                 !.trace = Append(st.trace, seen)]

\* A slip of lines 235-237: a bridge that went below zero is simulated on.
BridgeYearNoStop(a, st, age) ==
    LET s1 == BridgeYear(a, st, age)
    IN  IF s1.brk /\ s1.trace # st.trace
        THEN [s1 EXCEPT !.brk = FALSE]
        ELSE s1

\* Line 209: the years age .. full_fi_age - 1 of a bridge, until a break.
RECURSIVE BridgeLoop(_, _, _)
BridgeLoop(a, st, age) ==
    IF age >= a.full_fi_age \/ st.brk
    THEN st
    ELSE BridgeLoop(a, BridgeYear(a, st, age), age + 1)

RECURSIVE BridgeLoopNoStop(_, _, _)
BridgeLoopNoStop(a, st, age) ==
    IF age >= a.full_fi_age \/ st.brk
    THEN st
    ELSE BridgeLoopNoStop(a, BridgeYearNoStop(a, st, age), age + 1)

\* Lines 202-207: the locals of a candidate before its bridge.
BridgeStart(a, age0) ==
    [age0           |-> age0,
     bal_start_age  |-> BalanceRealByAge(a)[age0],
     bal            |-> BalanceRealByAge(a)[age0],
     ok             |-> TRUE,
     brk            |-> FALSE,
     pv_bridge_need |-> RInt(0),
     disc_factor    |-> RInt(1),
     trace          |-> <<>>]

BridgeNoStop(a, age0) == BridgeLoopNoStop(a, BridgeStart(a, age0), age0)

\* Lines 202-240: the bridge of the candidate age0.
Bridge(a, age0) == BridgeLoop(a, BridgeStart(a, age0), age0)

\* Lines 242-245: the candidate's bridge ended at or above the target.
BridgeSucceeds(a, b) == b.ok /\ RLe(FiTargetReal(a), b.bal)

\* What the result would be if the target were reported without a candidate.
BaristaNotReachedWithTarget ==
    [best_barista_age |-> None, bal_start_best |-> None,
     bal_full_fi_best |-> None,
     fi_target_real |-> IF RLt(RInt(0), args.base_30yr_swr)
                        THEN Some(FiTargetReal(args))
                        ELSE None,
     years_bridge |-> None, pv_bridge_need_best |-> None]

\* Lines 193-196 and 252-253: no candidate found.
BaristaNotReached ==
    [best_barista_age |-> None, bal_start_best |-> None,
     bal_full_fi_best |-> None, fi_target_real |-> None,
     years_bridge |-> None, pv_bridge_need_best |-> None]

\* A slip of line 255: the bridge is counted from current_age.
BaristaFoundFromNow(a, b) ==
    [best_barista_age    |-> Some(b.age0),
     bal_start_best      |-> Some(b.bal_start_age),
     bal_full_fi_best    |-> Some(b.bal),
     fi_target_real      |-> Some(FiTargetReal(a)),
     years_bridge        |-> Some(a.full_fi_age - a.current_age),
     pv_bridge_need_best |-> Some(b.pv_bridge_need)]

\* Lines 255-263: the result for the candidate whose bridge is b.
BaristaFound(a, b) ==
    [best_barista_age    |-> Some(b.age0),
     bal_start_best      |-> Some(b.bal_start_age),
     bal_full_fi_best    |-> Some(b.bal),
     fi_target_real      |-> Some(FiTargetReal(a)),
     years_bridge        |-> Some(a.full_fi_age - b.age0),
     pv_bridge_need_best |-> Some(b.pv_bridge_need)]

\* Lines 162-163, 186-187, 190-191: the calls that return at once.
BaristaDegenerate(a) ==
    RLe(a.fi_annual_spend_today, RInt(0)) \/ RLe(a.base_30yr_swr, RInt(0))

BaristaNoCandidates(a) ==
    \/ StartAgeCandidate(a) >= a.full_fi_age
    \/ EffectiveBaristaEndAge(a) < StartAgeCandidate(a)

\* No candidate simulated yet.
NoBridge == [age0 |-> 0, bal_start_age |-> RInt(0), bal |-> RInt(0), ok |-> FALSE,
             brk |-> FALSE, pv_bridge_need |-> RInt(0), disc_factor |-> RInt(1),
             trace |-> <<>>]

\* Lines 159-196: the guards, and the locals before the scan.
BaristaEntry ==
    /\ fn = "compute_barista_fi_age_bridge"
    /\ pc = "entry"
    /\ IF BaristaDegenerate(args) \/ BaristaNoCandidates(args)
       THEN /\ pc' = "done"
            /\ ret' = BaristaNotReached
            /\ UNCHANGED loc
       ELSE /\ pc' = "loop"
            /\ loc' = [age0 |-> StartAgeCandidate(args), best |-> None,
                       cand |-> NoBridge]
            /\ UNCHANGED ret
    /\ UNCHANGED <<fn, args>>

\* A slip of line 250: the scan goes on after a success.
CandidateStepNoBreak(l, a) ==
    IF l.age0 \notin DOMAIN BalanceRealByAge(a)
    THEN [l EXCEPT !.age0 = l.age0 + 1]
    ELSE LET b == Bridge(a, l.age0)
         IN  IF BridgeSucceeds(a, b)
             THEN [age0 |-> l.age0 + 1, best |-> Some(b), cand |-> b]
             ELSE [age0 |-> l.age0 + 1, best |-> l.best, cand |-> b]

\* Lines 198-250: the scan tries the candidate age0; the new locals.  On a
\* success (the break) age0 stays at the candidate.
CandidateStep(l, a) ==
    IF l.age0 \notin DOMAIN BalanceRealByAge(a)
    THEN [l EXCEPT !.age0 = l.age0 + 1]
    ELSE LET b == Bridge(a, l.age0)
         IN  IF BridgeSucceeds(a, b)
             THEN [age0 |-> l.age0, best |-> Some(b), cand |-> b]
             ELSE [age0 |-> l.age0 + 1, best |-> l.best, cand |-> b]

BaristaCandidate ==
    /\ fn = "compute_barista_fi_age_bridge"
    /\ pc = "loop"
    /\ loc.age0 <= args.full_fi_age
    /\ loc' = CandidateStep(loc, args)
    /\ pc' = IF loc'.best # None /\ loc'.age0 = loc.age0 THEN "return" ELSE "loop"
    /\ UNCHANGED <<fn, args, ret>>

\* Lines 252-263: the scan broke off or ran out of candidates.
BaristaReturn ==
    /\ fn = "compute_barista_fi_age_bridge"
    /\ \/ pc = "return"
       \/ pc = "loop" /\ loc.age0 > args.full_fi_age
    /\ pc' = "done"
    /\ ret' = IF loc.best = None
              THEN BaristaNotReached
              ELSE BaristaFound(args, Val(loc.best))
    /\ UNCHANGED <<fn, args, loc>>

(***************************************************************************)
(* The calls of compute_barista_fi_age_bridge the model makes: those main  *)
(* can make (lines 418-431, 805-849, 866-871, 1122-1135).                  *)
(***************************************************************************)
\* The longest trajectory given to compute_barista_fi_age_bridge.
MaxBridgeRows == 3

BaristaBalances == {RInt(3), RInt(30)}
BaristaSpends == {RInt(0), RInt(1)}
BaristaIncomes == {RInt(0), RInt(1)}
\* The nominal return of every simulated year: 0 or 100%.
BridgeReturns == {RInt(0), RInt(1)}
\* Withdrawal tax 0 and 50%.
BridgeTaxRates == {RInt(0), Rat(1, 2)}
ExtraHealth == {RInt(0), RInt(1)}

BaristaArgs ==
    UNION { [df                        : {Trajectory(n, bs) :
                                             bs \in SeqsOf(BaristaBalances, n)},
             current_age               : {MaxSimAge - n},
             fi_annual_spend_today     : BaristaSpends,
             barista_income_today      : BaristaIncomes,
             infl_rate                 : InflRates,
             show_real                 : BOOLEAN,
             annual_rates_by_year_full : {[k \in 1..n |-> r] : r \in BridgeReturns},
             base_30yr_swr             : {Rat(4, 100)},
             barista_end_age           : {e},
             full_fi_age               : {f},
             tax_rate_bridge           : BridgeTaxRates,
             extra_health_today        : ExtraHealth]
            : <<n, f, e>> \in
                  { t \in (1..MaxBridgeRows) \X (1..MaxSimAge) \X (1..MaxSimAge) :
                        /\ MaxSimAge - t[1] < t[2]
                        /\ MaxSimAge - t[1] < t[3]
                        /\ t[3] <= t[2] } }

InitBarista ==
    /\ fn = "compute_barista_fi_age_bridge"
    /\ pc = "entry"
    /\ args \in BaristaArgs
    /\ loc = [age0 |-> 0, best |-> None, cand |-> NoBridge]
    /\ ret = None

NextBarista == BaristaEntry \/ BaristaCandidate \/ BaristaReturn

SpecBarista == InitBarista /\ [][NextBarista]_vars

\* Both solvers.
InitSolvers == InitFI \/ InitBarista

NextSolvers == NextFI \/ NextBarista

SpecSolvers == InitSolvers /\ [][NextSolvers]_vars

(***************************************************************************)
(* Calls of compute_barista_fi_age_bridge whose bridges run from before    *)
(* age 60 to after it: main's calls (lines 1122-1135) at current_age 57,   *)
(* with the trajectory of the years to max_sim_age.                        *)
(***************************************************************************)
\* The greatest number of years between current_age and full_fi_age.
MaxEarlyYears == 4

\* The trajectory whose balances are b1 in its first two years and b2 after.
EarlyTrajectory(b1, b2) ==
    Trajectory(MaxSimAge - 57, [k \in 1..(MaxSimAge - 57) |-> IF k <= 2 THEN b1 ELSE b2])

\* The inflation rates and display modes of these calls: with inflation the
\* balances are given in today's dollars (line 174).
EarlyModes ==
    { m \in [infl_rate : InflRates, show_real : BOOLEAN] :
          RLt(RInt(0), m.infl_rate) => m.show_real }

\* The balances of these trajectories; compound_schedule can leave a
\* balance below zero (line 65).
EarlyBalances == {RInt(-3), RInt(3), RInt(30)}

EarlyArgs ==
    UNION { [df                        : {EarlyTrajectory(b1, b2) :
                                             b1 \in EarlyBalances,
                                             b2 \in EarlyBalances},
             current_age               : {57},
             fi_annual_spend_today     : BaristaSpends,
             barista_income_today      : BaristaIncomes,
             infl_rate                 : {m.infl_rate},
             show_real                 : {m.show_real},
             annual_rates_by_year_full : {[k \in 1..(MaxSimAge - 57) |-> r] :
                                             r \in BridgeReturns},
             base_30yr_swr             : {Rat(4, 100)},
             barista_end_age           : {e},
             full_fi_age               : {f},
             tax_rate_bridge           : BridgeTaxRates,
             extra_health_today        : ExtraHealth]
            : <<f, e>> \in
                  { t \in (58..(57 + MaxEarlyYears)) \X (58..(57 + MaxEarlyYears)) :
                        t[2] <= t[1] },
              m \in EarlyModes }

InitEarly ==
    /\ fn = "compute_barista_fi_age_bridge"
    /\ pc = "entry"
    /\ args \in EarlyArgs
    /\ loc = [age0 |-> 0, best |-> None, cand |-> NoBridge]
    /\ ret = None

NextEarly == BaristaEntry \/ BaristaCandidate \/ BaristaReturn

SpecEarly == InitEarly /\ [][NextEarly]_vars

(***************************************************************************)
(* Calls of the two solvers with spends, base rates and tax rates at and   *)
(* beyond the ends of their ranges.                                        *)
(***************************************************************************)
EdgeSpends == {RInt(-1), RInt(0), RInt(1)}
EdgeBaseRates == {Rat(-1, 100), RInt(0), Rat(1, 100), Rat(4, 100)}
EdgeTaxRates == {Rat(-1, 2), RInt(0), Rat(1, 2), RInt(1)}

\* The longest trajectory of these calls.
MaxEdgeRows == 2

EdgeFIArgs ==
    UNION { [df                    : {Trajectory(n, bs) :
                                         bs \in SeqsOf({RInt(0), RInt(100)}, n)},
             fi_annual_spend_today : EdgeSpends,
             infl_rate             : InflRates,
             show_real             : BOOLEAN,
             base_30yr_swr         : EdgeBaseRates,
             horizon_end_age       : {MaxSimAge}]
            : n \in 1..MaxEdgeRows }

EdgeBaristaArgs ==
    UNION { [df                        : {Trajectory(n, bs) :
                                             bs \in SeqsOf({RInt(30)}, n)},
             current_age               : {MaxSimAge - n},
             fi_annual_spend_today     : EdgeSpends,
             barista_income_today      : BaristaIncomes,
             infl_rate                 : InflRates,
             show_real                 : BOOLEAN,
             annual_rates_by_year_full : {[k \in 1..n |-> RInt(0)]},
             base_30yr_swr             : EdgeBaseRates,
             barista_end_age           : {MaxSimAge - 1},
             full_fi_age               : {MaxSimAge},
             tax_rate_bridge           : EdgeTaxRates,
             extra_health_today        : ExtraHealth]
            : n \in 2..(MaxEdgeRows + 1) }

InitEdges ==
    \/ /\ fn = "compute_fi_age_horizon"
       /\ pc = "entry"
       /\ args \in EdgeFIArgs
       /\ loc = [i |-> 0, found |-> FINotReached]
       /\ ret = None
    \/ /\ fn = "compute_barista_fi_age_bridge"
       /\ pc = "entry"
       /\ args \in EdgeBaristaArgs
       /\ loc = [age0 |-> 0, best |-> None, cand |-> NoBridge]
       /\ ret = None

NextEdges == NextFI \/ NextBarista

SpecEdges == InitEdges /\ [][NextEdges]_vars

(***************************************************************************)
(* federal_tax_single_approx and total_tax_on_earned (src/app.py:269-323)  *)
(***************************************************************************)
\* Lines 275-283: the brackets (lower, upper, rate) and the rate above them.
Brackets ==
    << [lower |-> RInt(0),      upper |-> RInt(11600),  rate |-> Rat(10, 100)],
       [lower |-> RInt(11600),  upper |-> RInt(47150),  rate |-> Rat(12, 100)],
       [lower |-> RInt(47150),  upper |-> RInt(100525), rate |-> Rat(22, 100)],
       [lower |-> RInt(100525), upper |-> RInt(191950), rate |-> Rat(24, 100)],
       [lower |-> RInt(191950), upper |-> RInt(243725), rate |-> Rat(32, 100)],
       [lower |-> RInt(243725), upper |-> RInt(609350), rate |-> Rat(35, 100)] >>

top_rate == Rat(37, 100)

\* Lines 287-294: the loop over the brackets from bracket i on, with its two
\* breaks; tax is the sum so far.
RECURSIVE BracketLoop(_, _, _)
BracketLoop(income, i, tax) ==
    IF i > Len(Brackets)
    THEN tax
    ELSE LET b == Brackets[i]
             span == RSub(RMin(income, b.upper), b.lower)
             tax1 == IF RLt(RInt(0), span) THEN RAdd(tax, RMul(span, b.rate)) ELSE tax
         IN  IF RLe(income, b.lower)
             THEN tax
             ELSE IF RLe(income, b.upper)
                  THEN tax1
                  ELSE BracketLoop(income, i + 1, tax1)

\* What lines 285-297 would be if the whole income were taxed at the rate of
\* the bracket it ends in.
FederalTaxOfTopBracket(income) ==
    IF RLe(income, RInt(0))
    THEN RInt(0)
    ELSE LET within == { i \in 1..Len(Brackets) : RLe(income, Brackets[i].upper) }
         IN  IF within = {}
             THEN RMul(income, top_rate)
             ELSE RMul(income,
                       Brackets[CHOOSE i \in within : \A j \in within : i <= j].rate)

\* Lines 269-299.
federal_tax_single_approx(income) ==
    IF RLe(income, RInt(0))
    THEN RInt(0)
    ELSE LET tax == BracketLoop(income, 1, RInt(0))
             last == Brackets[Len(Brackets)].upper
             tax2 == IF RLt(last, income)
                     THEN RAdd(tax, RMul(RSub(income, last), top_rate))
                     ELSE tax
         IN  RMax(tax2, RInt(0))

\* Lines 315-317.
ss_wage_base == RInt(168600)
ss_rate == Rat(62, 1000)
medicare_rate == Rat(145, 10000)

\* A slip of line 319: the wage base is forgotten.
SsTaxUncapped(income) == RMul(ss_rate, income)

\* Line 319.
SsTax(income) == RMul(ss_rate, RMin(income, ss_wage_base))

\* Lines 302-323.
total_tax_on_earned(income, state_tax_rate) ==
    IF RLe(income, RInt(0))
    THEN RInt(0)
    ELSE LET federal == federal_tax_single_approx(income)
             medicare_tax == RMul(medicare_rate, income)
             state_tax == RMul(RMax(state_tax_rate, RInt(0)), income)
         IN  RAdd(RAdd(RAdd(federal, SsTax(income)), medicare_tax), state_tax)

\* A call of total_tax_on_earned.
TaxCall ==
    /\ fn = "total_tax_on_earned"
    /\ pc = "entry"
    /\ pc' = "done"
    /\ ret' = Some(total_tax_on_earned(args.income, args.state_tax_rate))
    /\ UNCHANGED <<fn, args, loc>>

\* Incomes up to MaxIncomeSteps steps of 25,000, and the incomes at and next
\* to the ends of the brackets and the wage base.
MaxIncomeSteps == 28

TaxIncomes ==
    {RInt(25000 * k) : k \in (-1)..MaxIncomeSteps}
    \cup {RInt(1), Rat(1, 2), Rat(2345678, 100)}
    \cup UNION { {Brackets[i].upper, RAdd(Brackets[i].upper, RInt(1))}
                 : i \in 1..Len(Brackets) }
    \cup {ss_wage_base, RAdd(ss_wage_base, RInt(1))}

\* The state rates main asks for: 0 to 20% (lines 497-507).
StateTaxRates == {RInt(0), Rat(5, 100), Rat(20, 100)}

TaxArgs == [income : TaxIncomes, state_tax_rate : StateTaxRates]

InitTax ==
    /\ fn = "total_tax_on_earned"
    /\ pc = "entry"
    /\ args \in TaxArgs
    /\ loc = None
    /\ ret = None

NextTax == TaxCall

SpecTax == InitTax /\ [][NextTax]_vars

(***************************************************************************)
(* build_income_schedule (src/app.py:329-390)                              *)
(***************************************************************************)
\* Lines 351-357: the income of year y, deflated when show_real.
IncomeReal(a, y) ==
    LET income_nominal ==
            RMul(a.start_income, RPow(RAdd(RInt(1), a.income_growth_rate), y))
    IN  IF a.show_real /\ RLt(RInt(0), a.infl_rate)
        THEN RDiv(income_nominal, RPow(RAdd(RInt(1), a.infl_rate), y))
        ELSE income_nominal

\* A slip of line 360: the tax is not taken off the income.
AfterTaxIncomeUntaxed(income_real, tax_real) == RMax(income_real, RInt(0))

\* Line 360.
AfterTaxIncome(income_real, tax_real) ==
    RMax(RSub(income_real, tax_real), RInt(0))

\* What lines 362-374 would be if the forced savings rate were still capped
\* by what the explicit expense leaves.
IncomeRowOfBothModes(a, y, income_real, tax_real, after_tax_income_real) ==
    LET expense_real_base ==
            RMul(a.expense_today, RPow(RAdd(RInt(1), a.expense_growth_rate), y))
        override == RLt(RInt(0), a.savings_rate_override)
        left == RMax(RSub(after_tax_income_real, expense_real_base), RInt(0))
        investable_real ==
            IF override
            THEN RMin(RMul(after_tax_income_real, a.savings_rate_override), left)
            ELSE left
        implied_expense_real ==
            IF override
            THEN RSub(after_tax_income_real, investable_real)
            ELSE expense_real_base
        savings_rate_actual ==
            IF RLt(RInt(0), after_tax_income_real)
            THEN RDiv(investable_real, after_tax_income_real)
            ELSE RInt(0)
    IN  [YearIndex             |-> y,
         Age                   |-> a.current_age + y,
         IncomeRealBeforeTax   |-> income_real,
         TaxReal               |-> tax_real,
         IncomeRealAfterTax    |-> after_tax_income_real,
         ExpensesReal          |-> implied_expense_real,
         InvestableRealAnnual  |-> investable_real,
         InvestableRealMonthly |-> RDiv(investable_real, RInt(12)),
         SavingsRate           |-> savings_rate_actual]

\* Lines 360-388: the row of year y, from its income and the tax on it.
IncomeRowOf(a, y, income_real, tax_real, after_tax_income_real) ==
    LET expense_real_base ==
            RMul(a.expense_today, RPow(RAdd(RInt(1), a.expense_growth_rate), y))
        override == RLt(RInt(0), a.savings_rate_override)
        investable_real ==
            IF override
            THEN RMul(after_tax_income_real, a.savings_rate_override)
            ELSE RMax(RSub(after_tax_income_real, expense_real_base), RInt(0))
        implied_expense_real ==
            IF override
            THEN RSub(after_tax_income_real, investable_real)
            ELSE expense_real_base
        savings_rate_actual ==
            IF RLt(RInt(0), after_tax_income_real)
            THEN RDiv(investable_real, after_tax_income_real)
            ELSE RInt(0)
    IN  [YearIndex             |-> y,
         Age                   |-> a.current_age + y,
         IncomeRealBeforeTax   |-> income_real,
         TaxReal               |-> tax_real,
         IncomeRealAfterTax    |-> after_tax_income_real,
         ExpensesReal          |-> implied_expense_real,
         InvestableRealAnnual  |-> investable_real,
         InvestableRealMonthly |-> RDiv(investable_real, RInt(12)),
         SavingsRate           |-> savings_rate_actual]

\* Lines 349-388: the row of year y.  (The sets of one element have TLC work
\* the income, the tax and the income after tax out once each.)
IncomeRow(a, y) ==
    CHOOSE row \in
        UNION { UNION { { IncomeRowOf(a, y, income_real, tax_real, after_tax)
                          : after_tax \in {AfterTaxIncome(income_real, tax_real)} }
                        : tax_real \in {total_tax_on_earned(income_real,
                                                            a.state_tax_rate)} }
                : income_real \in {IncomeReal(a, y)} } : TRUE

\* Lines 345-346.
IncomeEntry ==
    /\ fn = "build_income_schedule"
    /\ pc = "entry"
    /\ pc' = "loop"
    /\ loc' = [years |-> args.retirement_age - args.current_age, y |-> 0,
               rows |-> <<>>]
    /\ UNCHANGED <<fn, args, ret>>

\* Lines 348-388: one turn of the loop over range(years).
IncomeYear ==
    /\ fn = "build_income_schedule"
    /\ pc = "loop"
    /\ loc.y < loc.years
    /\ loc' = [loc EXCEPT !.y = loc.y + 1,
                          !.rows = Append(loc.rows, IncomeRow(args, loc.y))]
    /\ UNCHANGED <<fn, pc, args, ret>>

\* Line 390.
IncomeReturn ==
    /\ fn = "build_income_schedule"
    /\ pc = "loop"
    /\ loc.y >= loc.years
    /\ pc' = "done"
    /\ ret' = Some(loc.rows)
    /\ UNCHANGED <<fn, args, loc>>

\* The longest income schedule built.
MaxIncomeYears == 3

\* The calls made: those of main (lines 418-539, 852-863) with a current age
\* of 30, and the direct calls whose retirement age is not after it.
IncomeArgs ==
    [current_age          : {30},
     retirement_age       : 29..(30 + MaxIncomeYears),
     start_income         : {RInt(0), RInt(54000), RInt(216000)},
     income_growth_rate   : {RInt(0), Rat(1, 5)},
     expense_today        : {RInt(0), RInt(36000), RInt(300000)},
     expense_growth_rate  : {RInt(0), Rat(1, 5)},
     infl_rate            : {RInt(0), Rat(1, 5)},
     savings_rate_override : {RInt(0), Rat(1, 2)},
     show_real            : BOOLEAN,
     state_tax_rate       : {RInt(0), Rat(5, 100)}]

InitIncome ==
    /\ fn = "build_income_schedule"
    /\ pc = "entry"
    /\ args \in IncomeArgs
    /\ loc = None
    /\ ret = None

NextIncome == IncomeEntry \/ IncomeYear \/ IncomeReturn

SpecIncome == InitIncome /\ [][NextIncome]_vars

(***************************************************************************)
(* The check of the ages in main (src/app.py:418-438), and the entry       *)
(* points main calls with the ages, called on their own.                   *)
(***************************************************************************)
\* Lines 430-438: main refuses a retirement age that is not after the
\* current age (st.error and return) before it simulates anything.
MainGuard ==
    /\ fn = "main"
    /\ pc = "entry"
    /\ LET retirement_age == IMin(args.retirement_age_input, MaxSimAge)
           years_plot == retirement_age - args.current_age
       IN  pc' = IF years_plot <= 0 THEN "rejected" ELSE "simulate"
    /\ UNCHANGED <<fn, args, loc, ret>>

\* The ages the two sidebar inputs give (lines 418-428) around a retirement
\* age of 88 or 90.
MainArgs == [current_age : 86..92, retirement_age_input : {88, 95}]

InitMain ==
    /\ fn = "main"
    /\ pc = "entry"
    /\ args \in MainArgs
    /\ loc = None
    /\ ret = None

\* Calls of compute_barista_fi_age_bridge at the age of 88, with a full FI
\* age before, at and after it.
EntryPointBaristaArgs ==
    [df                        : {Trajectory(2, <<RInt(3), RInt(30)>>)},
     current_age               : {88},
     fi_annual_spend_today     : {RInt(1)},
     barista_income_today      : BaristaIncomes,
     infl_rate                 : {RInt(0)},
     show_real                 : {TRUE},
     annual_rates_by_year_full : {<<RInt(0), RInt(0)>>},
     base_30yr_swr             : {Rat(4, 100)},
     barista_end_age           : {89, 90},
     full_fi_age               : 87..90,
     tax_rate_bridge           : {RInt(0)},
     extra_health_today        : ExtraHealth]

InitEntryPoints ==
    \/ InitMain
    \/ InitIncome
    \/ /\ fn = "compute_barista_fi_age_bridge"
       /\ pc = "entry"
       /\ args \in EntryPointBaristaArgs
       /\ loc = [age0 |-> 0, best |-> None, cand |-> NoBridge]
       /\ ret = None

NextEntryPoints == MainGuard \/ NextIncome \/ NextBarista

SpecEntryPoints == InitEntryPoints /\ [][NextEntryPoints]_vars

(***************************************************************************)
(* glide_path_return (src/app.py:396-406) and the path in main from the    *)
(* base return to the FI age: the yearly rates (866-871), the trajectory   *)
(* (1028-1036), its deflation (1043-1055) and the solver (1088-1096).      *)
(***************************************************************************)
\* A slip of lines 405-406: past 65 the rate goes back to the base.
GlideBackToBase(age, base_return) ==
    IF age <= 35 THEN RAdd(base_return, Rat(1, 100))
    ELSE IF age <= 45 THEN RAdd(base_return, Rat(5, 1000))
    ELSE IF age <= 55 THEN base_return
    ELSE IF age <= 65 THEN RSub(base_return, Rat(1, 100))
    ELSE base_return

glide_path_return(age, base_return) ==
    IF age <= 35 THEN RAdd(base_return, Rat(1, 100))
    ELSE IF age <= 45 THEN RAdd(base_return, Rat(5, 1000))
    ELSE IF age <= 55 THEN base_return
    ELSE IF age <= 65 THEN RSub(base_return, Rat(1, 100))
    ELSE RSub(base_return, Rat(15, 1000))

\* Lines 866-871.
GlideRates(current_age, annual_rate_base) ==
    [k \in 1..(MaxSimAge - current_age) |->
        glide_path_return(current_age + (k - 1), annual_rate_base)]

\* A call of glide_path_return.
GlideCall ==
    /\ fn = "glide_path_return"
    /\ pc = "entry"
    /\ pc' = "done"
    /\ ret' = Some(glide_path_return(args.age, args.base_return))
    /\ UNCHANGED <<fn, args, loc>>

\* The greatest age the function is called with.
MaxGlideAge == 100

\* Base returns of 0, 7% and 20% (the slider of lines 447-456).
GlideBaseReturns == {RInt(0), Rat(7, 100), Rat(20, 100)}

GlideArgs == [age : 0..MaxGlideAge, base_return : GlideBaseReturns]

InitGlide ==
    /\ fn = "glide_path_return"
    /\ pc = "entry"
    /\ args \in GlideArgs
    /\ loc = None
    /\ ret = None

NextGlide == GlideCall

SpecGlide == InitGlide /\ [][NextGlide]_vars

\* compound_schedule as a whole: the year loop from the locals l on, and the
\* rows it returns.  (The set of one element has TLC work a year out before
\* it starts the next.)
RECURSIVE ScheduleLoop(_, _)
ScheduleLoop(l, a) ==
    IF l.year_idx >= a.years
    THEN l.rows
    ELSE CHOOSE rows \in {ScheduleLoop(l2, a) : l2 \in {YearBody(l, a)}} : TRUE

compound_schedule(a) == ScheduleLoop(ScheduleLocals(a), a)

\* Lines 1036-1055: the rows with their ages, deflated when show_real.
DfOfRows(m, rows) ==
    [k \in 1..Len(rows) |->
        [Year    |-> rows[k].Year,
         Age     |-> m.current_age + rows[k].Year,
         Balance |-> IF m.show_real /\ RLt(RInt(0), m.infl_rate)
                     THEN RDiv(rows[k].Balance,
                               RPow(RAdd(RInt(1), m.infl_rate), rows[k].Year))
                     ELSE rows[k].Balance]]

\* Lines 1028-1055: df_full for a base return.
DfFull(m, annual_rate_base) ==
    CHOOSE df \in
        { DfOfRows(m, rows) : rows \in
            { compound_schedule(
                  [start_balance           |-> m.start_balance,
                   years                   |-> MaxSimAge - m.current_age,
                   monthly_contrib_by_year |-> m.monthly_contrib_by_year_full,
                   annual_expense_by_year  |-> m.annual_expense_by_year_nominal_full,
                   annual_rate             |-> None,
                   annual_rate_by_year     |->
                       Some(GlideRates(m.current_age, annual_rate_base))]) } } : TRUE

\* compute_fi_age_horizon as a whole: the scan from row i on.
RECURSIVE FIScan(_, _)
FIScan(a, i) ==
    IF i > Len(a.df)
    THEN FINotReached
    ELSE IF RowSkipped(a, a.df[i])
         THEN FIScan(a, i + 1)
         ELSE IF RowMeets(a, a.df[i])
              THEN FIFound(a, a.df[i])
              ELSE FIScan(a, i + 1)

compute_fi_age_horizon(a) == IF FIDegenerate(a) THEN FINotReached ELSE FIScan(a, 1)

\* Lines 866-1096 for a base return: what the solver returns.
MainFIResult(m, annual_rate_base) ==
    CHOOSE res \in
        { compute_fi_age_horizon([df                    |-> df,
                                  fi_annual_spend_today |-> m.fi_annual_spend_today,
                                  infl_rate             |-> m.infl_rate,
                                  show_real             |-> m.show_real,
                                  base_30yr_swr         |-> m.base_swr_30yr,
                                  horizon_end_age       |-> MaxSimAge])
          : df \in {DfFull(m, annual_rate_base)} } : TRUE

\* Two runs of main side by side, alike but for the base return, which is
\* annual_rate_base in one and the larger annual_rate_base_higher in the other.
MainFI ==
    /\ fn = "main"
    /\ pc = "simulate"
    /\ pc' = "done"
    /\ ret' = [fi        |-> MainFIResult(args, args.annual_rate_base),
               fi_higher |-> MainFIResult(args, args.annual_rate_base_higher)]
    /\ UNCHANGED <<fn, args, loc>>

\* The runs: a current age of 87, nothing invested at the start or in the
\* first year, and base returns that make the yearly return 0 and 1200%.
\* The amounts are in a unit that keeps three years at 1200% and the squares
\* of the balances within the model's integers.
MainFIArgs ==
    [current_age                         : {MaxSimAge - 3},
     start_balance                       : {RInt(0)},
     monthly_contrib_by_year_full        :
         {<<RInt(0), c2, c3>> : c2, c3 \in {RInt(0), Rat(1, 2048)}},
     annual_expense_by_year_nominal_full : SeqsOf({RInt(0), Rat(3, 1024)}, 3),
     fi_annual_spend_today               : {Rat(3, 20480)},
     infl_rate                           : InflRates,
     show_real                           : BOOLEAN,
     base_swr_30yr                       : {Rat(4, 100)},
     annual_rate_base                    : {Rat(15, 1000)},
     annual_rate_base_higher             : {RAdd(RInt(12), Rat(15, 1000))}]

InitMainFI ==
    /\ fn = "main"
    /\ pc = "simulate"
    /\ args \in MainFIArgs
    /\ loc = None
    /\ ret = None

NextMainFI == MainFI

SpecMainFI == InitMainFI /\ [][NextMainFI]_vars

(***************************************************************************)
(* Claims about compound_schedule, checked under SpecSchedule.             *)
(***************************************************************************)
\* C1: in the records compound_schedule produces, every year after the first
\* starts from the Balance recorded for the year before it, and year 1 starts
\* from start_balance.
C1_Chaining ==
    fn = "compound_schedule" =>
        \A k \in 1..Len(loc.hist) :
            loc.hist[k].balance_start_year =
                IF k = 1 THEN args.start_balance ELSE loc.rows[k - 1].Balance

\* A finished two-year schedule whose balance moved in both years.
C1_Witness ==
    /\ fn = "compound_schedule"
    /\ pc = "done"
    /\ Len(ret) >= 2
    /\ ret[1].Balance # args.start_balance
    /\ ret[2].Balance # ret[1].Balance
    /\ loc.hist[2].balance_start_year = ret[1].Balance

\* C2: in every year record, Balance = start-of-year balance
\* + InvestGrowthYear + ContribYear - AnnualExpense, and InvestGrowthYear is
\* the sum of the year's twelve monthly growth increments.
C2_YearIdentity ==
    fn = "compound_schedule" =>
        \A k \in 1..Len(loc.rows) :
            /\ loc.rows[k].Balance =
                   RSub(RAdd(RAdd(loc.hist[k].balance_start_year,
                                  loc.rows[k].InvestGrowthYear),
                             loc.rows[k].ContribYear),
                        loc.rows[k].AnnualExpense)
            /\ loc.rows[k].InvestGrowthYear = loc.hist[k].growth_sum

\* A year with growth, contributions and an expense, none of them zero.
C2_Witness ==
    /\ fn = "compound_schedule"
    /\ \E k \in 1..Len(loc.rows) :
           /\ RLt(RInt(0), loc.rows[k].InvestGrowthYear)
           /\ RLt(RInt(0), loc.rows[k].ContribYear)
           /\ RLt(RInt(0), loc.rows[k].AnnualExpense)
           /\ RLt(RInt(0), loc.hist[k].balance_start_year)

\* A finished call of N >= 1 years with no expenses, one monthly contribution
\* c for every year and one annual rate r > 0 for every year.
ConstantCall ==
    /\ fn = "compound_schedule"
    /\ pc = "done"
    /\ args.years >= 1
    /\ \A k \in 1..args.years :
           /\ args.annual_expense_by_year[k] = RInt(0)
           /\ args.monthly_contrib_by_year[k] = args.monthly_contrib_by_year[1]
           /\ YearRate(args, k - 1) = YearRate(args, 0)
    /\ RLt(RInt(0), YearRate(args, 0))

\* r / 12 and (1 + r/12)^(12 N) of such a call.
ConstantMonthlyRate == RDiv(YearRate(args, 0), RInt(MonthsPerYear))
ConstantFactor ==
    RPow(RAdd(RInt(1), ConstantMonthlyRate), MonthsPerYear * args.years)

\* c ((1 + r/12)^(12 N) - 1) / (r/12): the future value of the annuity of c
\* paid at the end of each month.
AnnuityEndOfMonth ==
    RDiv(RMul(args.monthly_contrib_by_year[1], RSub(ConstantFactor, RInt(1))),
         ConstantMonthlyRate)

\* C3 as claimed: with no expenses and a constant rate r, the final Balance
\* is s (1 + r/12)^(12 N) plus the end-of-month annuity future value of c.
C3_ClosedFormEndOfMonth ==
    ConstantCall =>
        ret[args.years].Balance =
            RAdd(RMul(args.start_balance, ConstantFactor), AnnuityEndOfMonth)

\* C3 as amended: with no expenses and a constant rate r > 0, the final
\* Balance is s (1 + r/12)^(12 N) plus the future value of the annuity of c
\* paid at the START of each month, (1 + r/12) times the end-of-month one.
C3_ClosedFormStartOfMonth ==
    ConstantCall =>
        ret[args.years].Balance =
            RAdd(RMul(args.start_balance, ConstantFactor),
                 RMul(RAdd(RInt(1), ConstantMonthlyRate), AnnuityEndOfMonth))

\* A two-year constant call with a start balance and contributions.
C3_Witness ==
    /\ ConstantCall
    /\ args.years >= 2
    /\ RLt(RInt(0), args.start_balance)
    /\ RLt(RInt(0), args.monthly_contrib_by_year[1])

\* C4 as claimed: no record of compound_schedule has a Balance below zero.
C4_BalanceNeverNegative ==
    fn = "compound_schedule" =>
        \A k \in 1..Len(loc.rows) : RLe(RInt(0), loc.rows[k].Balance)


(***************************************************************************)
(* Claims about compute_fi_age_horizon, checked under SpecFI.              *)
(***************************************************************************)
FIDone == fn = "compute_fi_age_horizon" /\ pc = "done"

\* The row is below the horizon and its balance is at least its required
\* portfolio.
RowReaches(a, row) ==
    /\ row.Age < a.horizon_end_age
    /\ SLe(RowRequired(a, row), Surd(row.Balance))

\* C5: given ages in increasing order, whenever compute_fi_age_horizon
\* returns an age, that age is below horizon_end_age, its row's balance is at
\* least its required target, and no row of a smaller age below the horizon
\* has a balance at least its own required target.
C5_FirstAge ==
    FIDone /\ ret.fi_age # None =>
        \E k \in 1..Len(args.df) :
            /\ args.df[k].Age = Val(ret.fi_age)
            /\ RowReaches(args, args.df[k])
            /\ \A j \in 1..Len(args.df) :
                   args.df[j].Age < args.df[k].Age => ~RowReaches(args, args.df[j])

\* An age is returned that is not the first row's, with a later row that
\* reaches its target too.
C5_Witness ==
    /\ FIDone
    /\ ret.fi_age # None
    /\ \E j, k \in 1..Len(args.df) :
           /\ args.df[j].Age < Val(ret.fi_age)
           /\ RLt(RInt(0), args.df[j].Balance)
           /\ args.df[k].Age > Val(ret.fi_age)
           /\ RowReaches(args, args.df[k])

\* The inflation factor of a row's required portfolio: 1 when the balances
\* are in today's dollars.
RowInflation(a, row) ==
    IF a.show_real /\ RLt(RInt(0), a.infl_rate)
    THEN RInt(1)
    ELSE RPow(RAdd(RInt(1), a.infl_rate), row.Year)

\* A row's balance in today's dollars.
RowReal(a, row) == RDiv(row.Balance, RowInflation(a, row))

\* The rows below the horizon whose real balance is at least S / w, and those
\* whose real balance is at least S / (the rate adjusted for the row's horizon).
ReachesFixedTarget(a, row) ==
    /\ row.Age < a.horizon_end_age
    /\ RLe(RDiv(a.fi_annual_spend_today, a.base_30yr_swr), RowReal(a, row))

ReachesHorizonTarget(a, row) ==
    /\ row.Age < a.horizon_end_age
    /\ SLe(SDivRat(a.fi_annual_spend_today,
                   adjusted_swr_for_horizon(a.horizon_end_age - row.Age,
                                            a.base_30yr_swr)),
           Surd(RowReal(a, row)))

\* C8 as claimed: the target is S / w in real dollars, and the solver returns
\* exactly the first age at which the real balance reaches S / w.
C8_FixedTarget ==
    FIDone /\ ~FIDegenerate(args) =>
        \A k \in 1..Len(args.df) :
            /\ ( /\ ReachesFixedTarget(args, args.df[k])
                 /\ \A j \in 1..(k - 1) : ~ReachesFixedTarget(args, args.df[j]) )
               => ret.fi_age = Some(args.df[k].Age)
            /\ ret.fi_age = Some(args.df[k].Age)
               => Val(ret.fi_required) =
                      Surd(RMul(RowInflation(args, args.df[k]),
                                RDiv(args.fi_annual_spend_today,
                                     args.base_30yr_swr)))

\* C8 as amended: the target at age a is S / adjusted_swr_for_horizon(
\* horizon_end_age - a, w) in real dollars, and the solver returns exactly the
\* first age at which the real balance reaches that age's target: not an
\* earlier age, not a later one, and no age when no row reaches its target.
C8_HorizonTarget ==
    FIDone /\ ~FIDegenerate(args) =>
        /\ \A k \in 1..Len(args.df) :
               /\ ( /\ ReachesHorizonTarget(args, args.df[k])
                    /\ \A j \in 1..(k - 1) : ~ReachesHorizonTarget(args, args.df[j]) )
                  => ret.fi_age = Some(args.df[k].Age)
               /\ ret.fi_age = Some(args.df[k].Age)
                  => Val(ret.fi_required) =
                         SMulRat(RowInflation(args, args.df[k]),
                                 SDivRat(args.fi_annual_spend_today,
                                         adjusted_swr_for_horizon(
                                             args.horizon_end_age - args.df[k].Age,
                                             args.base_30yr_swr)))
        /\ (\A k \in 1..Len(args.df) : ~ReachesHorizonTarget(args, args.df[k]))
           => ret.fi_age = None

\* An age is returned whose balance is short of S / w, after a row that was
\* short of its own target.
C8_Witness ==
    /\ FIDone
    /\ ret.fi_age # None
    /\ \E j, k \in 1..Len(args.df) :
           /\ j < k
           /\ args.df[k].Age = Val(ret.fi_age)
           /\ ~ReachesFixedTarget(args, args.df[k])
           /\ RLt(RInt(0), args.df[j].Balance)

(***************************************************************************)
(* Claims about compute_barista_fi_age_bridge, checked under SpecBarista.  *)
(***************************************************************************)
BaristaDone == fn = "compute_barista_fi_age_bridge" /\ pc = "done"

\* The scan of the call ran: no guard returned before it.
BaristaScanned(a) == ~BaristaDegenerate(a) /\ ~BaristaNoCandidates(a)

AgePresent(a, age0) == \E k \in 1..Len(a.df) : a.df[k].Age = age0

\* The bridge b went below zero in its last simulated year.
Depleted(b) == b.trace # <<>> /\ RLt(b.trace[Len(b.trace)].bal, RInt(0))

\* C6: whenever compute_barista_fi_age_bridge returns an age a, a is at least
\* current_age + 1, the bridge of a does not deplete and ends at or above the
\* target, and every candidate age in [current_age + 1, a) present in the
\* trajectory depletes during its bridge or ends it below the target.
C6_FirstSuccess ==
    BaristaDone /\ ret.best_barista_age # None =>
        LET a0 == Val(ret.best_barista_age)
        IN  /\ a0 >= args.current_age + 1
            /\ AgePresent(args, a0)
            /\ ~Depleted(Bridge(args, a0))
            /\ RLe(RDiv(args.fi_annual_spend_today, args.base_30yr_swr),
                   Bridge(args, a0).bal)
            /\ ret.bal_full_fi_best = Some(Bridge(args, a0).bal)
            /\ \A age0 \in (args.current_age + 1)..(a0 - 1) :
                   AgePresent(args, age0) =>
                       \/ Depleted(Bridge(args, age0))
                       \/ RLt(Bridge(args, age0).bal,
                              RDiv(args.fi_annual_spend_today, args.base_30yr_swr))

\* An age is returned after a younger candidate that depleted, and an older
\* candidate would have succeeded too.
C6_Witness ==
    /\ BaristaDone
    /\ ret.best_barista_age # None
    /\ \E age0 \in (args.current_age + 1)..(Val(ret.best_barista_age) - 1) :
           AgePresent(args, age0) /\ Depleted(Bridge(args, age0))
    /\ \E age1 \in (Val(ret.best_barista_age) + 1)..args.full_fi_age :
           AgePresent(args, age1) /\ BridgeSucceeds(args, Bridge(args, age1))

\* Part-time income equals the target spend.
GapZero ==
    /\ fn = "compute_barista_fi_age_bridge"
    /\ BaristaScanned(args)
    /\ args.barista_income_today = args.fi_annual_spend_today

\* C9 as claimed: with part-time income equal to the target spend the solver
\* returns the current age, whatever the balances.
C9_ReturnsCurrentAge ==
    GapZero /\ pc = "done" => ret.best_barista_age = Some(args.current_age)

\* C9 as amended: with part-time income equal to the target spend the solver
\* never returns the current age; the portfolio pays nothing of the spend
\* (only the extra health cost, grossed up) while the part-time work lasts,
\* and the age returned, if any, is at least current_age + 1 and ends its
\* bridge at or above the target, so the result depends on the balances.
C9_GapZero ==
    GapZero =>
        /\ \A i \in 1..Len(loc.cand.trace) :
               loc.cand.trace[i].age <= EffectiveBaristaEndAge(args) =>
                   RMul(loc.cand.trace[i].gross, RSub(RInt(1), BridgeTax(args)))
                       = RMax(args.extra_health_today, RInt(0))
        /\ pc = "done" =>
               /\ ret.best_barista_age # Some(args.current_age)
               /\ ret.best_barista_age # None =>
                      /\ Val(ret.best_barista_age) >= args.current_age + 1
                      /\ RLe(RDiv(args.fi_annual_spend_today, args.base_30yr_swr),
                             Val(ret.bal_full_fi_best))

\* With part-time income equal to the spend, a scan whose candidates were
\* simulated and none of which reached the target.
C9_Witness ==
    /\ GapZero
    /\ pc = "done"
    /\ ret.best_barista_age = None
    /\ LET b == Bridge(args, StartAgeCandidate(args))
       IN  \E i \in 1..Len(b.trace) :
               /\ b.trace[i].age <= EffectiveBaristaEndAge(args)
               /\ b.trace[i].gross = RInt(0)

\* C10 as claimed: a bridge whose withdrawals take the balance below zero
\* leaves the balance at exactly zero and stops at that year; the candidate
\* is not returned, and when every candidate depletes nothing is returned.
C10_ClampedToZero ==
    fn = "compute_barista_fi_age_bridge" /\ pc \in {"loop", "return", "done"} =>
        /\ Depleted(loc.cand) => loc.cand.bal = RInt(0)
        /\ \A i \in 1..(Len(loc.cand.trace) - 1) :
               RLe(RInt(0), loc.cand.trace[i].bal)

\* C10 as amended: a bridge whose withdrawal takes the balance below zero is
\* not clamped: its balance stays at the negative value and is dropped with
\* the candidate (ok = False).  The bridge stops at that year and the
\* candidate is never returned.  The candidate full_fi_age has no bridge year
\* and cannot deplete: when every younger candidate depletes, the solver
\* returns not reached unless the balance at full_fi_age is at or above the
\* target, and then it returns full_fi_age.
C10_DepletionStops ==
    fn = "compute_barista_fi_age_bridge" /\ pc \in {"loop", "return", "done"} =>
        /\ \A i \in 1..(Len(loc.cand.trace) - 1) :
               RLe(RInt(0), loc.cand.trace[i].bal)
        /\ Depleted(loc.cand) =>
               /\ ~loc.cand.ok
               /\ loc.cand.bal = loc.cand.trace[Len(loc.cand.trace)].bal
               /\ RLt(loc.cand.bal, RInt(0))
               /\ loc.best # Some(loc.cand)
        /\ loc.best # None =>
               /\ Val(loc.best).ok
               /\ \A i \in 1..Len(Val(loc.best).trace) :
                      RLe(RInt(0), Val(loc.best).trace[i].bal)
        /\ pc = "done" /\ BaristaScanned(args) =>
               /\ ret.best_barista_age # None =>
                      ret.best_barista_age = Some(Val(loc.best).age0)
               /\ ( \A age0 \in StartAgeCandidate(args)..(args.full_fi_age - 1) :
                        AgePresent(args, age0) => Depleted(Bridge(args, age0)) )
                  => /\ ret.best_barista_age \in {None, Some(args.full_fi_age)}
                     /\ ret.best_barista_age = None
                        <=> RLt(BalanceRealByAge(args)[args.full_fi_age],
                                RDiv(args.fi_annual_spend_today,
                                     args.base_30yr_swr))

\* A scan is over whose first candidate depleted in a year with a later
\* bridge year still to come, every candidate with a bridge year depleted,
\* and nothing is returned.
C10_Witness ==
    /\ BaristaDone
    /\ BaristaScanned(args)
    /\ ret.best_barista_age = None
    /\ LET b == Bridge(args, StartAgeCandidate(args))
       IN  Depleted(b) /\ b.trace[Len(b.trace)].age < args.full_fi_age - 1
    /\ \A age0 \in StartAgeCandidate(args)..(args.full_fi_age - 1) :
           AgePresent(args, age0) /\ Depleted(Bridge(args, age0))

(***************************************************************************)
(* A claim about both solvers, checked under SpecSolvers.                  *)
(***************************************************************************)
\* A scan ran, with a positive spend and a positive base rate, and no
\* candidate met the target.
ScanExhausted ==
    /\ pc = "done"
    /\ \/ /\ fn = "compute_fi_age_horizon"
          /\ ~FIDegenerate(args)
          /\ ret.fi_age = None
       \/ /\ fn = "compute_barista_fi_age_bridge"
          /\ BaristaScanned(args)
          /\ ret.best_barista_age = None

\* C7 as claimed: a solver whose scan met no target returns no transition age
\* and still reports the required target wealth.
C7_TargetStillReported ==
    ScanExhausted =>
        IF fn = "compute_fi_age_horizon"
        THEN ret.fi_age = None /\ ret.fi_required # None
        ELSE ret.best_barista_age = None /\ ret.fi_target_real # None

\* C7 as amended: a solver whose scan met no target returns no transition age
\* and no target wealth either: every field of the result is None.
C7_NothingReported ==
    ScanExhausted =>
        IF fn = "compute_fi_age_horizon"
        THEN /\ ret.fi_age = None
             /\ ret.fi_portfolio = None
             /\ ret.fi_required = None
             /\ ret.eff_swr = None
             /\ ret.horizon_years = None
        ELSE /\ ret.best_barista_age = None
             /\ ret.bal_start_best = None
             /\ ret.bal_full_fi_best = None
             /\ ret.fi_target_real = None
             /\ ret.years_bridge = None
             /\ ret.pv_bridge_need_best = None

\* A barista scan that simulated a candidate to the end of its bridge and
\* found it, and every later candidate, short of the target.
C7_Witness ==
    /\ ScanExhausted
    /\ fn = "compute_barista_fi_age_bridge"
    /\ LET b == Bridge(args, StartAgeCandidate(args))
       IN  b.ok /\ b.trace # <<>> /\ RLt(RInt(0), b.bal)

(***************************************************************************)
(* More claims about compute_fi_age_horizon, checked under SpecFI.         *)
(***************************************************************************)
\* C11 as claimed: whenever an age a is returned, the returned target is
\* spend / rate with the rate adjusted for the horizon horizon_end_age - a,
\* the returned horizon is horizon_end_age - a, and the returned portfolio is
\* at least the returned target.
C11_SpendOverRate ==
    FIDone /\ ret.fi_age # None =>
        LET T == args.horizon_end_age - Val(ret.fi_age)
        IN  /\ Val(ret.fi_required) =
                   SDivRat(args.fi_annual_spend_today,
                           adjusted_swr_for_horizon(T, args.base_30yr_swr))
            /\ Val(ret.horizon_years) = T
            /\ SLe(Val(ret.fi_required), Surd(Val(ret.fi_portfolio)))

\* C11 as amended: whenever an age a is returned, the returned target is
\* spend / rate with the rate adjusted for the horizon horizon_end_age - a,
\* the spend being today's spend when the balances are in today's dollars
\* (show_real and infl_rate > 0) and today's spend times (1 + infl_rate)^Year
\* of the row of a otherwise; the returned rate is that rate, the returned
\* horizon is horizon_end_age - a, and the returned portfolio is the row's
\* balance and at least the returned target.
C11_InflatedSpendOverRate ==
    FIDone /\ ret.fi_age # None =>
        \E k \in 1..Len(args.df) :
            LET row == args.df[k]
                T == args.horizon_end_age - row.Age
                rate == adjusted_swr_for_horizon(T, args.base_30yr_swr)
            IN  /\ row.Age = Val(ret.fi_age)
                /\ Val(ret.fi_required) =
                       SDivRat(RMul(args.fi_annual_spend_today,
                                    RowInflation(args, row)), rate)
                /\ Val(ret.eff_swr) = rate
                /\ Val(ret.horizon_years) = T
                /\ Val(ret.fi_portfolio) = row.Balance
                /\ SLe(Val(ret.fi_required), Surd(Val(ret.fi_portfolio)))

\* An age is returned on nominal balances with inflation, with a rate
\* strictly inside the band.
C11_Witness ==
    /\ FIDone
    /\ ret.fi_age # None
    /\ ~args.show_real
    /\ RLt(RInt(0), args.infl_rate)
    /\ SLt(Surd(SwrFloor), Val(ret.eff_swr))
    /\ SLt(Val(ret.eff_swr), Surd(SwrCeiling))

(***************************************************************************)
(* A claim about adjusted_swr_for_horizon, checked under SpecSwr.          *)
(***************************************************************************)
\* base * sqrt(30 / horizon), a horizon below 1 counting as 1.
RawSwr(horizon_years, base_30yr_swr) ==
    LET h == IF horizon_years < 1 THEN 1 ELSE horizon_years
    IN  [sg |-> Sign(base_30yr_swr.n),
         sq |-> RDiv(RMul(RInt(30), RMul(base_30yr_swr, base_30yr_swr)), RInt(h))]

\* C12: for every horizon (0 and negative horizons counting as 1) and every
\* base rate, adjusted_swr_for_horizon returns a rate in [0.025, 0.05], and
\* it returns base * sqrt(30 / horizon) whenever that lies in the band (the
\* nearer end of the band otherwise).
C12_ClampedToBand ==
    fn = "adjusted_swr_for_horizon" /\ pc = "done" =>
        LET raw == RawSwr(args.horizon_years, args.base_30yr_swr)
            lo == Surd(Rat(25, 1000))
            hi == Surd(Rat(5, 100))
        IN  /\ SLe(lo, Val(ret))
            /\ SLe(Val(ret), hi)
            /\ SLe(lo, raw) /\ SLe(raw, hi) => Val(ret) = raw
            /\ SLt(raw, lo) => Val(ret) = lo
            /\ SLt(hi, raw) => Val(ret) = hi

\* A call with a horizon below 1 whose rate lies strictly inside the band.
C12_Witness ==
    /\ fn = "adjusted_swr_for_horizon"
    /\ pc = "done"
    /\ args.horizon_years < 1
    /\ SLt(Surd(Rat(25, 1000)), Val(ret))
    /\ SLt(Val(ret), Surd(Rat(5, 100)))

(***************************************************************************)
(* A claim about total_tax_on_earned, checked under SpecTax.               *)
(***************************************************************************)
\* The part of the income between lower and upper, at the rate.
MarginalPart(income, lower, upper, rate) ==
    RMul(rate, RMax(RInt(0), RSub(RMin(income, upper), lower)))

\* The marginal tax of the bracket table: each slice of the income at the
\* rate of its bracket.
MarginalBracketTax(income) ==
    LET n == Len(Brackets)
        parts == [i \in 1..n |-> MarginalPart(income, Brackets[i].lower,
                                                Brackets[i].upper, Brackets[i].rate)]
    IN  RAdd(SumSeq(parts, n),
             RMul(top_rate, RMax(RInt(0), RSub(income, Brackets[n].upper))))

\* C13: total_tax_on_earned is 0 for an income <= 0, and on a positive income
\* the sum of the marginal bracket tax, 6.2% of the income up to the wage
\* base 168,600, 1.45% of the whole income and the state rate times the
\* whole income.
C13_TotalTax ==
    fn = "total_tax_on_earned" /\ pc = "done" =>
        IF RLe(args.income, RInt(0))
        THEN Val(ret) = RInt(0)
        ELSE Val(ret) =
                 RAdd(RAdd(MarginalBracketTax(args.income),
                           RMul(Rat(62, 1000), RMin(args.income, RInt(168600)))),
                      RAdd(RMul(Rat(145, 10000), args.income),
                           RMul(args.state_tax_rate, args.income)))

\* A call with an income above the wage base and in the top bracket, with a
\* state rate.
C13_Witness ==
    /\ fn = "total_tax_on_earned"
    /\ pc = "done"
    /\ RLt(RInt(609350), args.income)
    /\ RLt(RInt(0), args.state_tax_rate)
    /\ RLt(RInt(0), Val(ret))

(***************************************************************************)
(* A claim about build_income_schedule, checked under SpecIncome.          *)
(***************************************************************************)
\* C14: in every row build_income_schedule produces, the income after tax is
\* the income before tax less the tax, the investable surplus is the income
\* after tax less the expense and never below 0, and the savings rate is the
\* surplus over the income after tax when that is positive, else 0.
C14_IncomeRow ==
    fn = "build_income_schedule" /\ pc \in {"loop", "done"} =>
        \A i \in 1..Len(loc.rows) :
            LET r == loc.rows[i]
                post_tax == r.IncomeRealAfterTax
                surplus == RSub(post_tax, r.ExpensesReal)
            IN  /\ post_tax = RSub(r.IncomeRealBeforeTax, r.TaxReal)
                /\ r.InvestableRealAnnual =
                       IF RLt(surplus, RInt(0)) THEN RInt(0) ELSE surplus
                /\ r.SavingsRate =
                       IF RLt(RInt(0), post_tax)
                       THEN RDiv(r.InvestableRealAnnual, post_tax)
                       ELSE RInt(0)
                /\ pc = "done" => Val(ret)[i] = r

\* A schedule is returned with a taxed row whose expense exceeds its income
\* after tax, and one with a positive surplus.
C14_Witness ==
    /\ fn = "build_income_schedule"
    /\ pc = "done"
    /\ \E i, j \in 1..Len(Val(ret)) :
           /\ RLt(RInt(0), Val(ret)[i].TaxReal)
           /\ RLt(Val(ret)[i].IncomeRealAfterTax, Val(ret)[i].ExpensesReal)
           /\ Val(ret)[i].InvestableRealAnnual = RInt(0)
           /\ RLt(RInt(0), Val(ret)[j].InvestableRealAnnual)
           /\ RLt(Val(ret)[j].SavingsRate, RInt(1))

(***************************************************************************)
(* A claim about the entry points, checked under SpecEntryPoints.          *)
(***************************************************************************)
\* The terminal age of the call is not after its current age.
TerminalNotAfterCurrent ==
    IF fn = "main"
    THEN IMin(args.retirement_age_input, MaxSimAge) <= args.current_age
    ELSE IF fn = "build_income_schedule"
         THEN args.retirement_age <= args.current_age
         ELSE args.full_fi_age <= args.current_age

\* C15: a configuration whose terminal age is not after the current age is
\* refused: main stops before it simulates, and neither build_income_schedule
\* nor compute_barista_fi_age_bridge returns a result for it.
C15_InvalidConfigurationRejected ==
    TerminalNotAfterCurrent => pc \notin {"simulate", "done"}

(***************************************************************************)
(* A claim about both solvers, checked under SpecEdges.                    *)
(***************************************************************************)
\* The rows of df the scan of compute_fi_age_horizon has computed a rate for.
RowsVisited ==
    {k \in 1..Len(args.df) : k <= loc.i /\ ~RowSkipped(args, args.df[k])}

\* C16: with a base rate <= 0 or a spend <= 0 both solvers return not reached
\* (every field None) straight from their first check, before the scan and
\* before any division by the rate (line 183 in the barista solver, line 124
\* in the other).  With a positive base rate and spend every divisor is
\* strictly positive: the adjusted rate of every row visited, the base rate,
\* 1 - the tax rate used, and the discount factor.
C16_NoDivisionByZero ==
    IF RLe(args.fi_annual_spend_today, RInt(0)) \/ RLe(args.base_30yr_swr, RInt(0))
    THEN /\ pc \in {"entry", "done"}
         /\ pc = "done" =>
                \A f \in DOMAIN ret : ret[f] = None
    ELSE IF fn = "compute_fi_age_horizon"
         THEN pc \in {"loop", "return"} =>
                  \A k \in RowsVisited :
                      SLt(Surd(RInt(0)), RowSwr(args, args.df[k]))
         ELSE /\ RLt(RInt(0), RSub(RInt(1), BridgeTax(args)))
              /\ RLt(RInt(0), loc.cand.disc_factor)
              /\ \A i \in 1..Len(loc.cand.trace) :
                     RMul(loc.cand.trace[i].gross, RSub(RInt(1), BridgeTax(args)))
                         = TotalRealSpend(args, loc.cand.trace[i].age)

\* The barista solver has returned from a call with a positive spend and a
\* base rate of 0.
C16_Witness ==
    /\ fn = "compute_barista_fi_age_bridge"
    /\ pc = "done"
    /\ RLt(RInt(0), args.fi_annual_spend_today)
    /\ args.base_30yr_swr = RInt(0)
    /\ ret.best_barista_age = None

(***************************************************************************)
(* A claim about main, checked under SpecMainFI.                           *)
(***************************************************************************)
\* C17: of two runs that differ in the base return only, if the one with the
\* smaller base return reaches an FI age, so does the one with the larger.
C17_MonotonicFeasibility ==
    fn = "main" /\ pc = "done" =>
        (ret.fi.fi_age # None => ret.fi_higher.fi_age # None)

(***************************************************************************)
(* A claim about the compounding of compound_schedule, checked under       *)
(* SpecSchedule.                                                           *)
(***************************************************************************)
\* C18 as claimed: the engine compounds annually, the year's rate applied
\* once and 12 c added once a year, so that with no expenses and a constant
\* rate r the final Balance is s (1 + r)^N + 12 c ((1 + r)^N - 1) / r.
C18_AnnualClosedForm ==
    ConstantCall =>
        LET r == YearRate(args, 0)
            factor == RPow(RAdd(RInt(1), r), args.years)
        IN  ret[args.years].Balance =
                RAdd(RMul(args.start_balance, factor),
                     RDiv(RMul(RMul(RInt(12), args.monthly_contrib_by_year[1]),
                               RSub(factor, RInt(1))),
                          r))

\* C18 as amended: the engine has no annual mode.  Every year of every call
\* is compounded monthly: a year that starts from b with monthly contribution
\* c and rate r stands, before its expense, at
\* b (1 + r/12)^12 + c ((1 + r/12) + (1 + r/12)^2 + ... + (1 + r/12)^12).
C18_MonthlyOnly ==
    fn = "compound_schedule" =>
        \A k \in 1..Len(loc.hist) :
            LET q == RAdd(RInt(1), RDiv(YearRate(args, k - 1), RInt(12)))
                powers == [j \in 1..12 |-> RPow(q, j)]
            IN  loc.hist[k].balance_before_expense =
                    RAdd(RMul(loc.hist[k].balance_start_year, powers[12]),
                         RMul(args.monthly_contrib_by_year[k], SumSeq(powers, 12)))

\* A second year with a rate, a contribution and a balance to start from.
C18_Witness ==
    /\ fn = "compound_schedule"
    /\ Len(loc.hist) >= 2
    /\ RLt(RInt(0), YearRate(args, 1))
    /\ RLt(RInt(0), args.monthly_contrib_by_year[2])
    /\ RLt(RInt(0), loc.hist[2].balance_start_year)
    /\ RLt(RInt(0), args.annual_expense_by_year[1])

(***************************************************************************)
(* Claims about the bridge years of compute_barista_fi_age_bridge, checked *)
(* under SpecBarista.                                                      *)
(***************************************************************************)
\* The bridge years simulated for the last candidate.
BridgeYears == 1..Len(loc.cand.trace)

\* C19 as claimed: the need of a bridge year is max(0, spend - part-time
\* income) at the ages before the stop-part-time-work age, the full spend at
\* the ages after it (either of the two at that age), and nothing is added.
C19_NeedWithoutAdditions ==
    fn = "compute_barista_fi_age_bridge" =>
        \A i \in BridgeYears :
            LET y == loc.cand.trace[i]
                gap == RMax(RInt(0), RSub(args.fi_annual_spend_today,
                                          args.barista_income_today))
            IN  /\ y.age < args.barista_end_age => y.need = gap
                /\ y.age > args.barista_end_age => y.need = args.fi_annual_spend_today
                /\ y.need \in {gap, args.fi_annual_spend_today}

\* C19 as amended: the need of a bridge year is max(0, spend - part-time
\* income) at every age up to and including the stop-part-time-work age (or
\* full_fi_age - 1 if that is smaller) and the full spend at every later age
\* below full_fi_age, plus max(extra_health_today, 0) in every bridge year.
C19_NeedWithHealth ==
    fn = "compute_barista_fi_age_bridge" =>
        \A i \in BridgeYears :
            LET y == loc.cand.trace[i]
                last == IF args.barista_end_age < args.full_fi_age - 1
                        THEN args.barista_end_age
                        ELSE args.full_fi_age - 1
                gap == RMax(RInt(0), RSub(args.fi_annual_spend_today,
                                          args.barista_income_today))
                health == RMax(args.extra_health_today, RInt(0))
            IN  /\ y.age >= loc.cand.age0
                /\ y.age < args.full_fi_age
                /\ y.need = RAdd(IF y.age <= last
                                 THEN gap
                                 ELSE args.fi_annual_spend_today,
                                 health)

\* A bridge with a year of part-time work and a year after it, with a
\* part-time income and an extra health cost.
C19_Witness ==
    /\ fn = "compute_barista_fi_age_bridge"
    /\ RLt(RInt(0), args.barista_income_today)
    /\ RLt(RInt(0), args.extra_health_today)
    /\ \E i, j \in BridgeYears :
           /\ loc.cand.trace[i].age <= args.barista_end_age
           /\ loc.cand.trace[j].age > args.barista_end_age
           /\ RLt(loc.cand.trace[i].need, loc.cand.trace[j].need)

\* C20: in every bridge year the balance goes down by the withdrawal, which
\* with a tax rate t > 0 is need / (1 - t), so that withdrawal * (1 - t) is
\* the need, and with t = 0 is the need; t is the tax rate kept within
\* [0, 0.7].
C20_GrossUp ==
    fn = "compute_barista_fi_age_bridge" =>
        \A i \in BridgeYears :
            LET y == loc.cand.trace[i]
                t == RMax(RInt(0), RMin(args.tax_rate_bridge, Rat(7, 10)))
            IN  /\ y.bal = RSub(y.bal_before, y.gross)
                /\ IF RLt(RInt(0), t)
                   THEN /\ y.gross = RDiv(y.need, RSub(RInt(1), t))
                        /\ RMul(y.gross, RSub(RInt(1), t)) = y.need
                   ELSE y.gross = y.need

\* A bridge year with a tax rate and a need, after a year with growth.
C20_Witness ==
    /\ fn = "compute_barista_fi_age_bridge"
    /\ RLt(RInt(0), args.tax_rate_bridge)
    /\ \E i \in BridgeYears :
           /\ i >= 2
           /\ RLt(RInt(0), loc.cand.trace[i].need)
           /\ RLt(loc.cand.trace[i].need, loc.cand.trace[i].gross)
           /\ RLt(loc.cand.trace[i - 1].bal, loc.cand.trace[i].bal_before)

(***************************************************************************)
(* Claims about the bridge years on either side of age 60, checked under   *)
(* SpecEarly.                                                              *)
(***************************************************************************)
\* The withdrawal of a need at the flat rate t.
FlatGrossUp(need, t) ==
    IF RLt(RInt(0), t) THEN RDiv(need, RSub(RInt(1), t)) ELSE need

\* C21 as claimed: the withdrawal of a bridge year below age 60 is grossed up
\* with another rate than the flat tax rate, so it is the same whatever the
\* flat tax rate is; the withdrawal of a year at or above 60 is grossed up
\* with the flat rate.
C21_EarlyRateBelowSixty ==
    fn = "compute_barista_fi_age_bridge" =>
        \A i \in BridgeYears :
            LET y == loc.cand.trace[i]
            IN  IF y.age < 60
                THEN \A flat \in BridgeTaxRates :
                         GrossWithdrawal([args EXCEPT !.tax_rate_bridge = flat],
                                         y.age) = y.gross
                ELSE y.gross = FlatGrossUp(y.need, BridgeTax(args))

\* C21 as amended: every bridge year, below age 60 or not, grosses up its
\* withdrawal with the one flat tax rate (kept within [0, 0.7]); years of
\* equal need on either side of 60 withdraw the same.
C21_FlatRateAtEveryAge ==
    fn = "compute_barista_fi_age_bridge" =>
        /\ \A i \in BridgeYears :
               loc.cand.trace[i].gross =
                   FlatGrossUp(loc.cand.trace[i].need,
                               RMax(RInt(0), RMin(args.tax_rate_bridge, Rat(7, 10))))
        /\ \A i, j \in BridgeYears :
               /\ loc.cand.trace[i].age < 60
               /\ loc.cand.trace[j].age >= 60
               /\ loc.cand.trace[i].need = loc.cand.trace[j].need
               => loc.cand.trace[i].gross = loc.cand.trace[j].gross

\* A bridge with a taxed withdrawal below age 60 and an equal one above it.
C21_Witness ==
    /\ fn = "compute_barista_fi_age_bridge"
    /\ RLt(RInt(0), args.tax_rate_bridge)
    /\ \E i, j \in BridgeYears :
           /\ loc.cand.trace[i].age < 60
           /\ loc.cand.trace[j].age >= 60
           /\ RLt(RInt(0), loc.cand.trace[i].need)
           /\ loc.cand.trace[i].need = loc.cand.trace[j].need
           /\ RLt(loc.cand.trace[i].need, loc.cand.trace[i].gross)

(***************************************************************************)
(* The order of a bridge year's steps, checked under SpecBarista.          *)
(***************************************************************************)
\* The bridge years of the last candidate that ran to their end (a year that
\* leaves bal below zero breaks off before its growth, lines 235-237).
CompletedBridgeYears ==
    { i \in BridgeYears : i < Len(loc.cand.trace) \/ loc.cand.ok }

\* bal at the end of the i-th bridge year.
BalanceAtYearEnd(i) ==
    IF i < Len(loc.cand.trace)
    THEN loc.cand.trace[i + 1].bal_before
    ELSE loc.cand.bal

\* 1 + the real return of the bridge year of an age.
YearGrowthFactor(age) ==
    LET r_nominal == args.annual_rates_by_year_full[age - args.current_age + 1]
    IN  IF RLt(RInt(0), args.infl_rate)
        THEN RDiv(RAdd(RInt(1), r_nominal), RAdd(RInt(1), args.infl_rate))
        ELSE RAdd(RInt(1), r_nominal)

\* C22 as claimed: a bridge year first applies its growth to the balance and
\* then subtracts the withdrawal, so the withdrawal earns the year's growth.
C22_GrowthThenWithdrawal ==
    fn = "compute_barista_fi_age_bridge" =>
        \A i \in CompletedBridgeYears :
            LET y == loc.cand.trace[i]
            IN  BalanceAtYearEnd(i) =
                    RSub(RMul(y.bal_before, YearGrowthFactor(y.age)), y.gross)

\* C22 as amended: a bridge year first subtracts the withdrawal, once, and
\* then applies its growth to what is left (nothing is contributed), so the
\* withdrawal reduces the base on which the year's growth is earned.
C22_WithdrawalThenGrowth ==
    fn = "compute_barista_fi_age_bridge" =>
        \A i \in CompletedBridgeYears :
            LET y == loc.cand.trace[i]
            IN  BalanceAtYearEnd(i) =
                    RMul(RSub(y.bal_before, y.gross), YearGrowthFactor(y.age))

\* A completed bridge year with a withdrawal and a growth.
C22_Witness ==
    /\ fn = "compute_barista_fi_age_bridge"
    /\ \E i \in CompletedBridgeYears :
           /\ RLt(RInt(0), loc.cand.trace[i].gross)
           /\ RLt(RInt(1), YearGrowthFactor(loc.cand.trace[i].age))
           /\ RLt(RInt(0), BalanceAtYearEnd(i))

(***************************************************************************)
(* The rate of adjusted_swr_for_horizon over the horizons, checked under   *)
(* SpecSwr.                                                                *)
(***************************************************************************)
\* C23: for a fixed base rate, the rate returned for a horizon is at least
\* the rate of every longer horizon.
C23_NonIncreasingInHorizon ==
    fn = "adjusted_swr_for_horizon" /\ pc = "done" =>
        \A h2 \in args.horizon_years..MaxHorizon :
            SLe(adjusted_swr_for_horizon(h2, args.base_30yr_swr), Val(ret))

\* A call whose rate is strictly above that of a longer horizon and strictly
\* below that of a shorter one.
C23_Witness ==
    /\ fn = "adjusted_swr_for_horizon"
    /\ pc = "done"
    /\ \E h1 \in 1..args.horizon_years, h2 \in args.horizon_years..MaxHorizon :
           /\ SLt(adjusted_swr_for_horizon(h2, args.base_30yr_swr), Val(ret))
           /\ SLt(Val(ret), adjusted_swr_for_horizon(h1, args.base_30yr_swr))

(***************************************************************************)
(* The two surplus modes of build_income_schedule, checked under           *)
(* SpecIncome.                                                             *)
(***************************************************************************)
\* The schedule of a call.
IncomeRowsOf(a) ==
    [k \in 1..IMax(a.retirement_age - a.current_age, 0) |-> IncomeRow(a, k - 1)]

\* The calls that differ from a in their expense inputs at most.
ExpenseVariants(a) ==
    { [a EXCEPT !.expense_today = e, !.expense_growth_rate = g] :
          e \in {RInt(0), RInt(36000), RInt(300000)}, g \in {RInt(0), Rat(1, 5)} }

\* C24: with savings_rate_override > 0 the surplus of every year is the income
\* after tax times the override, and the schedule returned is the same
\* whatever expense_today and expense_growth_rate are; with an override of 0
\* the expense of a year is expense_today grown by expense_growth_rate and
\* the surplus is the income after tax less it, or 0.
C24_ExclusiveSurplusModes ==
    fn = "build_income_schedule" /\ pc = "done" =>
        IF RLt(RInt(0), args.savings_rate_override)
        THEN /\ \A i \in 1..Len(Val(ret)) :
                    Val(ret)[i].InvestableRealAnnual =
                        RMul(Val(ret)[i].IncomeRealAfterTax, args.savings_rate_override)
             /\ \A b \in ExpenseVariants(args) : IncomeRowsOf(b) = Val(ret)
        ELSE \A i \in 1..Len(Val(ret)) :
                 LET r == Val(ret)[i]
                     expense == RMul(args.expense_today,
                                     RPow(RAdd(RInt(1), args.expense_growth_rate),
                                          i - 1))
                 IN  /\ r.ExpensesReal = expense
                     /\ r.InvestableRealAnnual =
                            RMax(RSub(r.IncomeRealAfterTax, expense), RInt(0))

\* A schedule of a forced savings rate whose explicit expense, had it counted,
\* would have left a smaller surplus.
C24_Witness ==
    /\ fn = "build_income_schedule"
    /\ pc = "done"
    /\ RLt(RInt(0), args.savings_rate_override)
    /\ RLt(RInt(0), args.expense_growth_rate)
    /\ \E i \in 2..Len(Val(ret)) :
           /\ RLt(RInt(0), Val(ret)[i].InvestableRealAnnual)
           /\ RLt(RSub(Val(ret)[i].IncomeRealAfterTax,
                       RMul(args.expense_today,
                            RPow(RAdd(RInt(1), args.expense_growth_rate), i - 1))),
                  Val(ret)[i].InvestableRealAnnual)

(***************************************************************************)
(* A claim about glide_path_return, checked under SpecGlide.               *)
(***************************************************************************)
\* C25: for a fixed base return the rate of an age is at least the rate of
\* every greater age; it is above the base up to age 35, the base from 46
\* to 55, below the base from 56 to 65 and lower still above 65; and it
\* changes at the ages 36, 46, 56 and 66 only.
C25_GlidePathSteps ==
    fn = "glide_path_return" /\ pc = "done" =>
        /\ \A older \in args.age..MaxGlideAge :
               RLe(glide_path_return(older, args.base_return), Val(ret))
        /\ args.age <= 35 => RLt(args.base_return, Val(ret))
        /\ args.age \in 46..55 => Val(ret) = args.base_return
        /\ args.age \in 56..65 => RLt(Val(ret), args.base_return)
        /\ args.age > 65 => RLt(Val(ret), glide_path_return(65, args.base_return))
        /\ args.age > 0 /\ args.age \notin {36, 46, 56, 66}
               => Val(ret) = glide_path_return(args.age - 1, args.base_return)

\* A call at the last age of a step: the rate is below the base, and above
\* the rate of the next age.
C25_Witness ==
    /\ fn = "glide_path_return"
    /\ pc = "done"
    /\ args.age = 65
    /\ RLt(Val(ret), args.base_return)
    /\ RLt(glide_path_return(args.age + 1, args.base_return), Val(ret))

(***************************************************************************)
(* The cumulative columns of compound_schedule, checked under SpecSchedule.*)
(***************************************************************************)
\* The sum of a column over the first i rows.
RECURSIVE ColumnSum(_, _, _)
ColumnSum(rows, column, i) ==
    IF i = 0 THEN RInt(0) ELSE RAdd(ColumnSum(rows, column, i - 1), rows[i][column])

\* C26: in every row, Balance = start_balance + CumContributions +
\* InvestGrowth - CumulativeExpense, ExpenseDrag = -CumulativeExpense,
\* NetGrowth = InvestGrowth + ExpenseDrag, and CumContributions, InvestGrowth
\* and CumulativeExpense are the sums so far of ContribYear, InvestGrowthYear
\* and AnnualExpense.
C26_ColumnsDecomposeBalance ==
    fn = "compound_schedule" =>
        \A i \in 1..Len(loc.rows) :
            LET row == loc.rows[i]
            IN  /\ row.Balance =
                       RSub(RAdd(RAdd(args.start_balance, row.CumContributions),
                                 row.InvestGrowth),
                            row.CumulativeExpense)
                /\ row.ExpenseDrag = RNeg(row.CumulativeExpense)
                /\ row.NetGrowth = RAdd(row.InvestGrowth, row.ExpenseDrag)
                /\ row.CumContributions = ColumnSum(loc.rows, "ContribYear", i)
                /\ row.InvestGrowth = ColumnSum(loc.rows, "InvestGrowthYear", i)
                /\ row.CumulativeExpense = ColumnSum(loc.rows, "AnnualExpense", i)

\* A schedule of two years is returned, each with a contribution, a growth
\* and an expense.
C26_Witness ==
    /\ fn = "compound_schedule"
    /\ pc = "done"
    /\ Len(loc.rows) >= 2
    /\ \A i \in 1..2 :
           /\ RLt(RInt(0), loc.rows[i].ContribYear)
           /\ RLt(RInt(0), loc.rows[i].InvestGrowthYear)
           /\ RLt(RInt(0), loc.rows[i].AnnualExpense)

(***************************************************************************)
(* What compute_barista_fi_age_bridge returns with a transition age,       *)
(* checked under SpecEarly.                                                *)
(***************************************************************************)
\* C27: a returned transition age a lies between current_age + 1 and
\* full_fi_age and is an age of the trajectory; the returned bridge length
\* is full_fi_age - a; the returned balance at full FI is at least the
\* returned target, fi_annual_spend_today / base_30yr_swr; and the balance
\* of candidate a was never below zero, before or after a withdrawal.
C27_ReturnedTransitionAge ==
    fn = "compute_barista_fi_age_bridge" /\ pc = "done"
    /\ ret.best_barista_age # None =>
        LET a == Val(ret.best_barista_age)
            b == Bridge(args, a)
        IN  /\ args.current_age + 1 <= a
            /\ a <= args.full_fi_age
            /\ \E k \in 1..Len(args.df) : args.df[k].Age = a
            /\ Val(ret.years_bridge) = args.full_fi_age - a
            /\ Val(ret.years_bridge) >= 0
            /\ Val(ret.fi_target_real) =
                   RDiv(args.fi_annual_spend_today, args.base_30yr_swr)
            /\ Val(ret.bal_full_fi_best) = b.bal
            /\ RLe(Val(ret.fi_target_real), Val(ret.bal_full_fi_best))
            /\ Len(b.trace) = Val(ret.years_bridge)
            /\ RLe(RInt(0), Val(ret.bal_start_best))
            /\ \A i \in 1..Len(b.trace) :
                   /\ RLe(RInt(0), b.trace[i].bal_before)
                   /\ RLe(RInt(0), b.trace[i].bal)

\* A transition age is returned after a younger candidate ran out of money,
\* with a bridge of withdrawals before full_fi_age.
C27_Witness ==
    /\ fn = "compute_barista_fi_age_bridge"
    /\ pc = "done"
    /\ ret.best_barista_age # None
    /\ Val(ret.best_barista_age) > args.current_age + 1
    /\ Val(ret.years_bridge) >= 1
    /\ Depleted(Bridge(args, args.current_age + 1))
    /\ \A i \in 1..Val(ret.years_bridge) :
           RLt(RInt(0), Bridge(args, Val(ret.best_barista_age)).trace[i].gross)

(***************************************************************************)
(* The tax against the income, checked under SpecTax.                      *)
(***************************************************************************)
\* a / b < c / d, for a, c >= 0 and b, d > 0, by the whole parts and then the
\* remainders (no product is formed, so amounts of any size compare).
RECURSIVE WideLt(_, _, _, _)
WideLt(a, b, c, d) ==
    IF a \div b # c \div d
    THEN a \div b < c \div d
    ELSE IF c % d = 0
         THEN FALSE
         ELSE IF a % b = 0 THEN TRUE ELSE WideLt(d, c % d, b, a % b)

\* income - tax as a whole number w and a fraction f of [0, 1).
LessTax(income, tax) ==
    LET fi == Rat(income.n % income.d, income.d)
        ft == Rat(tax.n % tax.d, tax.d)
        borrow == IF RLt(fi, ft) THEN 1 ELSE 0
    IN  [w |-> (income.n \div income.d) - (tax.n \div tax.d) - borrow,
         f |-> RAdd(RSub(fi, ft), RInt(borrow))]

\* p <= q, for two such amounts.
NetLe(p, q) ==
    \/ p.w < q.w
    \/ p.w = q.w /\ ~WideLt(q.f.n, q.f.d, p.f.n, p.f.d)

\* C28: for an income >= 0 and a state rate from 0 to 20%, the total tax is
\* at most the income, so the income less the tax is never below 0 and the
\* clamp of the income after tax does nothing, and the income after tax is
\* at least that of every smaller income >= 0.
C28_TaxAtMostIncome ==
    fn = "total_tax_on_earned" /\ pc = "done"
    /\ RLe(RInt(0), args.income)
    /\ RLe(RInt(0), args.state_tax_rate) /\ RLe(args.state_tax_rate, Rat(20, 100)) =>
        /\ LessTax(args.income, Val(ret)).w >= 0
        /\ ~WideLt(args.income.n, args.income.d, Val(ret).n, Val(ret).d)
        /\ \A smaller \in TaxIncomes :
               RLe(RInt(0), smaller) /\ RLe(smaller, args.income) =>
                   NetLe(LessTax(smaller,
                                 total_tax_on_earned(smaller, args.state_tax_rate)),
                         LessTax(args.income, Val(ret)))

\* A call at the greatest state rate with an income in the top bracket: more
\* than half of the income is tax.
C28_Witness ==
    /\ fn = "total_tax_on_earned"
    /\ pc = "done"
    /\ args.state_tax_rate = Rat(20, 100)
    /\ RLt(RInt(609350), args.income)
    /\ WideLt(args.income.n, 2 * args.income.d, Val(ret).n, Val(ret).d)
    /\ WideLt(Val(ret).n, Val(ret).d, args.income.n, args.income.d)

(***************************************************************************)
(* The lengths of the sequences given to compound_schedule, checked under  *)
(* SpecLengths.                                                            *)
(***************************************************************************)
\* The first n entries of a sequence of at least n entries.
FirstEntries(s, n) == [k \in 1..n |-> s[k]]

\* The call with its sequences cut to years entries.
CutToYears(a) ==
    [a EXCEPT !.monthly_contrib_by_year = FirstEntries(@, a.years),
              !.annual_expense_by_year = FirstEntries(@, a.years)]

\* C29: a call whose rates are not years many raises ValueError before any
\* year is simulated and returns nothing; the contributions and the expenses
\* are not checked: with at least years entries each, the call raises
\* nothing and returns what it returns for their first years entries.
C29_OnlyRatesLengthChecked ==
    fn = "compound_schedule" /\ pc # "entry" =>
        IF args.annual_rate_by_year # None
           /\ Len(Val(args.annual_rate_by_year)) # args.years
        THEN /\ pc = "ValueError"
             /\ loc.year_idx = 0
             /\ loc.rows = <<>>
             /\ ret = None
        ELSE /\ pc # "ValueError"
             /\ Len(args.monthly_contrib_by_year) >= args.years
                /\ Len(args.annual_expense_by_year) >= args.years
                => /\ pc # "IndexError"
                   /\ pc = "done" => /\ Len(ret) = args.years
                                     /\ ret = compound_schedule(CutToYears(args))

\* A call with rates for one year too many, and with contributions and
\* expenses for one year too many as well, has raised ValueError.
C29_Witness ==
    /\ fn = "compound_schedule"
    /\ pc = "ValueError"
    /\ args.years >= 1
    /\ Len(Val(args.annual_rate_by_year)) = args.years + 1
    /\ Len(args.monthly_contrib_by_year) = args.years + 1
    /\ Len(args.annual_expense_by_year) = args.years + 1

=============================================================================
